---- MODULE Spec2Model ----
(***************************************************************************)
(* Verification model of galdr: the session/context store                  *)
(* (src/context/manager.ts, src/context/session.ts,                        *)
(* src/context/summarizer.ts), the child-process lifecycle of the           *)
(* CLI-backed providers (src/providers/base.ts, the copilot override) and   *)
(* the streaming tool-calling loop of the networked provider                *)
(* (src/providers/deepseek.ts).                                             *)
(*                                                                         *)
(* Strings are modelled as sequences of tokens, times are milliseconds.     *)
(***************************************************************************)
EXTENDS Integers, Sequences, FiniteSets, TLC

(***************************************************************************)
(* Program constants                                                        *)
(***************************************************************************)
AUTO_COMPACT_THRESHOLD == 50

AUTO_COMPACT_KEEP == 20

saveThrottleMs == 500

DEFAULT_SESSION == "default"

priorityOrder == <<"claude", "gemini", "copilot", "cursor">>

(***************************************************************************)
(* Bounds of the model                                                      *)
(***************************************************************************)
\* length of the short history a session may be loaded with
ShortLen == 2

\* number of store calls (addMessage, updateLastAssistantMessage, compact)
\* made in one run
MaxCalls == 3

\* largest keep count passed to compact() by its caller
MaxKeep == 1

\* the clock advances in steps of TickMs up to T0 + MaxTicks * TickMs
TickMs == 250

MaxTicks == 2

\* number of appends of the append-only scenario
MaxAppends == 110

\* number of output chunks a child process writes per channel
MaxChunks == 2

\* Date.now() at construction: far beyond the throttle interval
T0 == 1000

\* number of requests one execute() of the networked provider may send
MaxTurns == 2

\* number of provider events one execution hands to the sink
MaxEvents == 4

\* length of the streamed text
MaxTextLen == 10

\* number of prompts the user submits in one run
MaxPrompts == 3

\* number of times the cancellation token is fired during one execution
MaxFires == 3

VARIABLES
  context,             \* ContextManager.context (in-memory ConversationContext)
  index,               \* SessionManager.index (also the metadata.json file)
  files,               \* session files on disk: name -> SessionData
  lastSaveTime,        \* ContextManager.lastSaveTime
  pendingSave,         \* ContextManager.pendingSave
  timers,              \* due times of the outstanding setTimeout callbacks
  autoCompactEnabled,  \* ContextManager.autoCompactEnabled
  now,                 \* Date.now()
  msgSeq,              \* number of the next text handed in by the caller
  calls,               \* number of store calls made so far
  cmp,                 \* the compact() call that is awaiting its summary
  ret                  \* return value of the last completed store call

storeVars == <<context, index, files, lastSaveTime, pendingSave, timers,
               autoCompactEnabled, now, msgSeq, calls, cmp, ret>>

VARIABLES
  run,        \* the execute() call of a CLI-backed provider
  child,      \* the spawned child process
  stdout,     \* handleChildProcess: captured standard output
  stderr,     \* handleChildProcess: captured error output
  isAborted,  \* handleChildProcess: isAborted
  signal,     \* the AbortSignal handed to execute()
  result,     \* the value the promise of execute() resolved with
  fault       \* exception that escaped an event handler ("" if none)

procVars == <<run, child, stdout, stderr, isAborted, signal, result, fault>>

VARIABLES
  dsPc,              \* position of execute() / streamResponse
  dsMessages,        \* streamResponse: messages (the running list)
  request,           \* request.messages as last sent to the backend
  wire,              \* the part of the response body not yet read
  buffer,            \* streamResponse: buffer
  fullResponse,      \* streamResponse: fullResponse
  toolCalls,         \* streamResponse: toolCalls
  currentToolCall,   \* streamResponse: currentToolCall
  currentToolIndex,  \* streamResponse: currentToolIndex
  toolAt,            \* number of the call whose executeTool is pending, or 0
  dsAborted,         \* signal.aborted
  dsResult,          \* the ProviderResult execute() resolved with
  turn,              \* number of requests sent
  obs                \* observations: body sent, text handed to onStream,
                     \* events parsed, tool starts and ends

dsVars == <<dsPc, dsMessages, request, wire, buffer, fullResponse, toolCalls,
            currentToolCall, currentToolIndex, toolAt, dsAborted, dsResult,
            turn, obs>>

VARIABLES
  accumulatedStreamItems,  \* executeWithProvider: the stream items shown
  currentToolId,           \* executeWithProvider: currentToolId
  isActive,                \* InkWriter.isActive
  uiPc,                    \* position of executeWithProvider around execute()
  uiEvents                 \* number of provider events handled so far

chatVars == <<accumulatedStreamItems, currentToolId, isActive, uiPc,
              uiEvents>>

VARIABLES
  streamText,  \* the accumulated text handed to findLastSafeSplitPoint
  splitPoint,  \* the value findLastSafeSplitPoint returned for it
  splitTaken   \* the value of shouldSplitMessage for it, per terminal height

splitVars == <<streamText, splitPoint, splitTaken>>

VARIABLES
  sessionRet  \* the last session operation: its name, argument and result

sessionVars == <<sessionRet>>

\* no session operation has been called yet
InitSession ==
  sessionRet = [op |-> "none", name |-> "", to |-> "", ok |-> FALSE, n |-> 0,
                list |-> <<>>]

VARIABLES
  isLoading,  \* ChatApp: the isLoading state
  prompts     \* the prompts submitted so far and where each of them stands

promptVars == <<isLoading, prompts>>

VARIABLES
  normalizer,          \* the provider whose handleStreamChunk is running
  backendOutput,       \* what the child process writes to stdout in all
  delivered,           \* how much of it the 'data' events have delivered
  aligned,             \* every chunk so far ended at the end of a line
  sinkCalls,           \* the calls of the writer's methods, in order
  firstChunkReceived,  \* BaseProvider.firstChunkReceived
  onFirstChunk         \* a first-chunk callback was given to execute()

normVars == <<normalizer, backendOutput, delivered, aligned, sinkCalls,
              firstChunkReceived, onFirstChunk>>

\* a provider before execute(): nothing written, nothing delivered
InitNorm ==
  /\ normalizer = "base"
  /\ backendOutput = <<>>
  /\ delivered = 0
  /\ aligned = TRUE
  /\ sinkCalls = <<>>
  /\ firstChunkReceived = FALSE
  /\ onFirstChunk = FALSE

VARIABLES
  startPc,          \* where the galdr command stands
  optionsProvider,  \* options.provider of the chat command
  cliContext,       \* the context of the ContextManager of handleChatAction
  installed,        \* the providers checkAvailability finds
  firstProvider     \* the provider the first prompt was executed with

startVars == <<startPc, optionsProvider, cliContext, installed, firstProvider>>

\* no command is running
InitStart ==
  /\ startPc = "shell"
  /\ optionsProvider = "none"
  /\ cliContext = [messages |-> <<>>, currentProvider |-> "claude",
                   switchMode |-> "manual"]
  /\ installed = {}
  /\ firstProvider = "none"

VARIABLES
  turnEnd,  \* the last turn that ended: provider, mode, result, availability
  notice    \* the notification the end of that turn has set

turnVars == <<turnEnd, notice>>

VARIABLES
  backendTools   \* the tool calls the backend has reported in this execution

toolVars == <<backendTools>>

InitTool == backendTools = <<>>

\* no turn has ended yet
InitTurn ==
  /\ turnEnd = [provider |-> "none", mode |-> "manual", success |-> FALSE,
                response |-> FALSE, tokenLimitReached |-> FALSE,
                available |-> {}]
  /\ notice = "none"

\* the chat is idle, nothing has been submitted
InitPrompt ==
  /\ isLoading = FALSE
  /\ prompts = <<>>

\* executeWithProvider before the InkWriter is created
InitChat ==
  /\ accumulatedStreamItems = <<>>
  /\ currentToolId = 0
  /\ isActive = FALSE
  /\ uiPc = "idle"
  /\ uiEvents = 0

\* terminal heights (rows) the chat is run with; 24 is the default
TerminalHeights == {18, 19, 24}

\* no text has been streamed yet
InitSplit ==
  /\ streamText = <<>>
  /\ splitPoint = 0
  /\ splitTaken = [terminalHeight \in TerminalHeights |-> FALSE]

vars == <<storeVars, procVars, dsVars, chatVars, splitVars, sessionVars,
          promptVars, normVars, startVars, turnVars, toolVars>>

(***************************************************************************)
(* Helpers                                                                  *)
(***************************************************************************)
Min(a, b) == IF a < b THEN a ELSE b

Max(a, b) == IF a > b THEN a ELSE b

NoProvider == "none"

\* a Message; its timestamp is left out, no code of the store reads it
Message(role, content, provider) ==
  [role |-> role, content |-> content, provider |-> provider]

\* a text typed by the user or produced by a backend
Text(n) == [kind |-> "text", n |-> n, by |-> NoProvider]

\* a text that was already in the session file when it was loaded
StoredText(n) == [kind |-> "stored", n |-> n, by |-> NoProvider]

\* `[Summarized ${n} messages using ${p}]\n\n...`
SummaryText(n, p) == [kind |-> "summary", n |-> n, by |-> p]

\* Array.prototype.slice index normalisation
SliceIdx(i, n) == IF i < 0 THEN Max(n + i, 0) ELSE Min(i, n)

\* Array.prototype.slice(start, end)
slice(s, start, end) ==
  LET a == SliceIdx(start, Len(s))
      b == SliceIdx(end, Len(s))
  IN  IF a < b THEN SubSeq(s, a + 1, b) ELSE <<>>

\* messages.slice(-keepLast)
recentMessagesOf(messages, keepLast) ==
  slice(messages, 0 - keepLast, Len(messages))

\* messages.slice(0, -keepLast)
oldMessagesOf(messages, keepLast) == slice(messages, 0, 0 - keepLast)

(***************************************************************************)
(* SessionManager.saveSession                                               *)
(***************************************************************************)
\* a saveSession that leaves the messageCount of an existing entry as it is
saveSessionStaleCount(ix, fs, sessionName, ctx, t) ==
  LET meta == IF sessionName \in DOMAIN ix.sessions
              THEN [ix.sessions[sessionName] EXCEPT !.lastAccessed = t]
              ELSE [name |-> sessionName, created |-> t, lastAccessed |-> t,
                    messageCount |-> Len(ctx.messages)]
      sessions == [n \in DOMAIN ix.sessions \cup {sessionName} |->
                     IF n = sessionName THEN meta ELSE ix.sessions[n]]
      data == [context |-> ctx, metadata |-> meta]
  IN  [index |-> [ix EXCEPT !.sessions = sessions],
       files |-> [n \in DOMAIN fs \cup {sessionName} |->
                    IF n = sessionName THEN data ELSE fs[n]]]

saveSession(ix, fs, sessionName, ctx, t) ==
  LET meta == IF sessionName \in DOMAIN ix.sessions
              THEN [ix.sessions[sessionName] EXCEPT
                      !.lastAccessed = t,
                      !.messageCount = Len(ctx.messages)]
              ELSE [name |-> sessionName, created |-> t, lastAccessed |-> t,
                    messageCount |-> Len(ctx.messages)]
      sessions == [n \in DOMAIN ix.sessions \cup {sessionName} |->
                     IF n = sessionName THEN meta ELSE ix.sessions[n]]
      data == [context |-> ctx, metadata |-> meta]
  IN  [index |-> [ix EXCEPT !.sessions = sessions],
       files |-> [n \in DOMAIN fs \cup {sessionName} |->
                    IF n = sessionName THEN data ELSE fs[n]]]

\* ContextManager.save: write ctx under the current session name
save(ctx) ==
  LET r == saveSession(index, files, index.currentSession, ctx, now)
  IN  /\ index' = r.index
      /\ files' = r.files

\* the conversation persisted for the current session
Persisted == files[index.currentSession].context

(***************************************************************************)
(* Return values                                                            *)
(***************************************************************************)
NoRet ==
  [op |-> "none", ok |-> FALSE, compacted |-> FALSE, removed |-> 0,
   error |-> "", cause |-> "none", keep |-> 0, at |-> 0,
   before |-> <<>>, after |-> <<>>]

IdleCmp ==
  [pc |-> "idle", keepLast |-> 0, recentMessages |-> <<>>,
   oldMessages |-> <<>>, auto |-> FALSE, before |-> <<>>, session |-> ""]

(***************************************************************************)
(* Initial state: the store right after construction.  The current session *)
(* exists on disk and has been loaded.                                      *)
(***************************************************************************)
StoredMessage(i) ==
  Message(IF i % 2 = 1 THEN "user" ELSE "assistant", StoredText(i),
          IF i % 2 = 1 THEN NoProvider ELSE "claude")

StoredHistory(len) == [i \in 1..len |-> StoredMessage(i)]

defaultContext(messages) ==
  [messages |-> messages, currentProvider |-> "claude",
   switchMode |-> "manual"]

InitStore(len) ==
  LET ctx == defaultContext(StoredHistory(len))
      r == saveSession([currentSession |-> DEFAULT_SESSION,
                        sessions |-> <<>>], <<>>, DEFAULT_SESSION, ctx, T0)
  IN  /\ context = ctx
      /\ index = r.index
      /\ files = r.files
      /\ lastSaveTime = 0
      /\ pendingSave = FALSE
      /\ timers = {}
      /\ autoCompactEnabled = TRUE
      /\ now = T0
      /\ msgSeq = 1
      /\ calls = 0
      /\ cmp = IdleCmp
      /\ ret = NoRet

(***************************************************************************)
(* ContextManager.throttledSave and its timer callback                      *)
(***************************************************************************)
\* a throttle that drops the request instead of scheduling a trailing write
throttledSaveDropping(ctx) ==
  IF now - lastSaveTime >= saveThrottleMs
  THEN /\ save(ctx)
       /\ lastSaveTime' = now
       /\ pendingSave' = FALSE
       /\ timers' = timers
  ELSE UNCHANGED <<index, files, lastSaveTime, pendingSave, timers>>

throttledSave(ctx) ==
  IF now - lastSaveTime >= saveThrottleMs
  THEN /\ save(ctx)
       /\ lastSaveTime' = now
       /\ pendingSave' = FALSE
       /\ timers' = timers
  ELSE /\ UNCHANGED <<index, files, lastSaveTime>>
       /\ IF ~pendingSave
          THEN /\ pendingSave' = TRUE
               /\ timers' = timers \cup
                    {now + (saveThrottleMs - (now - lastSaveTime))}
          ELSE UNCHANGED <<pendingSave, timers>>

\* the setTimeout callback scheduled by throttledSave, run at or after d
TimerFire(d) ==
  /\ d \in timers
  /\ now >= d
  /\ timers' = timers \ {d}
  /\ IF pendingSave
     THEN /\ save(context)
          /\ lastSaveTime' = now
          /\ pendingSave' = FALSE
     ELSE UNCHANGED <<index, files, lastSaveTime, pendingSave>>
  /\ UNCHANGED <<context, autoCompactEnabled, now, msgSeq, calls, cmp, ret>>

(***************************************************************************)
(* MessageSummarizer                                                        *)
(***************************************************************************)
\* the last provider of priorityOrder whose availability check succeeds
getLastAvailableProvider(avail) ==
  LET hits == {i \in DOMAIN priorityOrder : priorityOrder[i] \in avail}
  IN  IF hits = {} THEN NoProvider
      ELSE priorityOrder[CHOOSE i \in hits : \A j \in hits : i >= j]

\* first provider of priorityOrder whose availability check succeeds
getFirstAvailableProvider(avail) ==
  LET hits == {i \in DOMAIN priorityOrder : priorityOrder[i] \in avail}
  IN  IF hits = {} THEN NoProvider
      ELSE priorityOrder[CHOOSE i \in hits : \A j \in hits : i <= j]

\* outcome of summarize(messages): the summary text or the thrown error.
\* execution is the ProviderResult of the delegated call:
\*   "response" success with a non-empty response, "empty" success without
\*   response, "failed" success = false
summarize(messages, avail, execution) ==
  LET provider == getFirstAvailableProvider(avail)
  IN  IF provider = NoProvider
      THEN [ok |-> FALSE, cause |-> "no-backend",
            error |-> "Unable to summarize: No LLM provider available",
            content |-> SummaryText(0, NoProvider)]
      ELSE IF execution = "response"
      THEN [ok |-> TRUE, cause |-> "ok", error |-> "",
            content |-> SummaryText(Len(messages), provider)]
      ELSE [ok |-> FALSE, cause |-> "call-failed",
            error |-> "Failed to generate summary",
            content |-> SummaryText(0, NoProvider)]

(***************************************************************************)
(* ContextManager.compact                                                   *)
(***************************************************************************)
\* compact(keepLast) up to its await of the summarizer, on the messages the
\* caller sees; op is the public call that returns to the user
\* (session: the session that is current when compact() is called)
compactBegin(messages, keepLast, op) ==
  IF Len(messages) > keepLast
  THEN /\ cmp' = [pc |-> "awaiting", keepLast |-> keepLast,
                  recentMessages |-> recentMessagesOf(messages, keepLast),
                  oldMessages |-> oldMessagesOf(messages, keepLast),
                  auto |-> (op = "addMessage"), before |-> messages,
                  session |-> index.currentSession]
       /\ ret' = ret
  ELSE /\ cmp' = IdleCmp
       /\ ret' = [NoRet EXCEPT !.op = op, !.keep = keepLast,
                               !.before = messages, !.after = messages]

Compact(keepLast) ==
  /\ cmp.pc = "idle"
  /\ compactBegin(context.messages, keepLast, "compact")
  /\ calls' = calls + 1
  /\ UNCHANGED <<context, index, files, lastSaveTime, pendingSave, timers,
                 autoCompactEnabled, now, msgSeq>>

\* the summarizer answered: lines 187-197
CompactSucceed(avail) ==
  LET s == summarize(cmp.oldMessages, avail, "response")
      summary == Message("assistant", s.content, NoProvider)
      ctx == [context EXCEPT !.messages = <<summary>> \o cmp.recentMessages]
  IN  /\ cmp.pc = "awaiting"
      /\ s.ok
      /\ context' = ctx
      /\ save(ctx)
      /\ cmp' = IdleCmp
      /\ ret' = [NoRet EXCEPT
                   !.op = IF cmp.auto THEN "addMessage" ELSE "compact",
                   !.ok = TRUE, !.compacted = TRUE,
                   !.removed = Len(cmp.oldMessages), !.cause = s.cause,
                   !.keep = cmp.keepLast, !.before = cmp.before,
                   !.after = ctx.messages]
      /\ UNCHANGED <<lastSaveTime, pendingSave, timers, autoCompactEnabled,
                     now, msgSeq, calls>>

\* a catch branch that has already dropped the old messages
CompactFailPartial(avail, execution) ==
  LET s == summarize(cmp.oldMessages, avail, execution)
      ctx == [context EXCEPT !.messages = cmp.recentMessages]
  IN  /\ cmp.pc = "awaiting"
      /\ ~s.ok
      /\ context' = ctx
      /\ save(ctx)
      /\ cmp' = IdleCmp
      /\ ret' = [NoRet EXCEPT
                   !.op = IF cmp.auto THEN "addMessage" ELSE "compact",
                   !.error = s.error, !.cause = s.cause,
                   !.keep = cmp.keepLast, !.before = cmp.before,
                   !.after = ctx.messages]
      /\ UNCHANGED <<lastSaveTime, pendingSave, timers, autoCompactEnabled,
                     now, msgSeq, calls>>

\* the summarizer threw: lines 198-202
CompactFail(avail, execution) ==
  LET s == summarize(cmp.oldMessages, avail, execution)
  IN  /\ cmp.pc = "awaiting"
      /\ ~s.ok
      /\ cmp' = IdleCmp
      /\ ret' = [NoRet EXCEPT
                   !.op = IF cmp.auto THEN "addMessage" ELSE "compact",
                   !.error = s.error, !.cause = s.cause,
                   !.keep = cmp.keepLast, !.before = cmp.before,
                   !.after = context.messages]
      /\ UNCHANGED <<context, index, files, lastSaveTime, pendingSave,
                     timers, autoCompactEnabled, now, msgSeq, calls>>

(***************************************************************************)
(* ContextManager.addMessage                                                *)
(***************************************************************************)
\* addMessage that compacts as soon as the threshold is reached (>=)
AddMessageEager(role, provider) ==
  LET m == Message(role, Text(msgSeq), provider)
      ctx == [context EXCEPT !.messages = Append(@, m)]
  IN  /\ cmp.pc = "idle"
      /\ context' = ctx
      /\ save(ctx)
      /\ msgSeq' = msgSeq + 1
      /\ calls' = calls + 1
      /\ IF autoCompactEnabled /\ Len(ctx.messages) >= AUTO_COMPACT_THRESHOLD
         THEN compactBegin(ctx.messages, AUTO_COMPACT_KEEP, "addMessage")
         ELSE /\ cmp' = cmp
              /\ ret' = [NoRet EXCEPT !.op = "addMessage", !.ok = TRUE,
                                      !.before = ctx.messages,
                                      !.after = ctx.messages]
      /\ UNCHANGED <<lastSaveTime, pendingSave, timers, autoCompactEnabled,
                     now>>

AddMessage(role, provider) ==
  LET m == Message(role, Text(msgSeq), provider)
      ctx == [context EXCEPT !.messages = Append(@, m)]
  IN  /\ cmp.pc = "idle"
      /\ context' = ctx
      /\ save(ctx)
      /\ msgSeq' = msgSeq + 1
      /\ calls' = calls + 1
      /\ IF autoCompactEnabled /\ Len(ctx.messages) > AUTO_COMPACT_THRESHOLD
         THEN compactBegin(ctx.messages, AUTO_COMPACT_KEEP, "addMessage")
         ELSE /\ cmp' = cmp
              /\ ret' = [NoRet EXCEPT !.op = "addMessage", !.ok = TRUE,
                                      !.before = ctx.messages,
                                      !.after = ctx.messages]
      /\ UNCHANGED <<lastSaveTime, pendingSave, timers, autoCompactEnabled,
                     now>>

(***************************************************************************)
(* ContextManager.updateLastAssistantMessage                                *)
(***************************************************************************)
\* updateLastAssistantMessage that does not compare the provider
UpdateLastAssistantMessageAnyProvider(provider) ==
  LET n == Len(context.messages)
      applies == /\ n > 0
                 /\ context.messages[n].role = "assistant"
      ctx == [context EXCEPT !.messages[n].content = Text(msgSeq)]
  IN  /\ cmp.pc = "idle"
      /\ calls' = calls + 1
      /\ IF applies
         THEN /\ context' = ctx
              /\ throttledSave(ctx)
              /\ msgSeq' = msgSeq + 1
              /\ ret' = [NoRet EXCEPT !.op = "updateLastAssistantMessage",
                                      !.ok = TRUE, !.at = now,
                                      !.before = context.messages,
                                      !.after = ctx.messages]
         ELSE /\ ret' = [NoRet EXCEPT !.op = "updateLastAssistantMessage",
                                      !.before = context.messages,
                                      !.after = context.messages]
              /\ UNCHANGED <<context, index, files, lastSaveTime,
                             pendingSave, timers, msgSeq>>
      /\ UNCHANGED <<autoCompactEnabled, now, cmp>>

UpdateLastAssistantMessage(provider) ==
  LET n == Len(context.messages)
      applies == /\ n > 0
                 /\ context.messages[n].role = "assistant"
                 /\ (provider = NoProvider
                       \/ context.messages[n].provider = provider)
      ctx == [context EXCEPT !.messages[n].content = Text(msgSeq)]
  IN  /\ cmp.pc = "idle"
      /\ calls' = calls + 1
      /\ IF applies
         THEN /\ context' = ctx
              /\ throttledSave(ctx)
              /\ msgSeq' = msgSeq + 1
              /\ ret' = [NoRet EXCEPT !.op = "updateLastAssistantMessage",
                                      !.ok = TRUE, !.at = now,
                                      !.before = context.messages,
                                      !.after = ctx.messages]
         ELSE /\ ret' = [NoRet EXCEPT !.op = "updateLastAssistantMessage",
                                      !.before = context.messages,
                                      !.after = context.messages]
              /\ UNCHANGED <<context, index, files, lastSaveTime,
                             pendingSave, timers, msgSeq>>
      /\ UNCHANGED <<autoCompactEnabled, now, cmp>>

Tick ==
  /\ now < T0 + MaxTicks * TickMs
  /\ now' = now + TickMs
  /\ UNCHANGED <<context, index, files, lastSaveTime, pendingSave, timers,
                 autoCompactEnabled, msgSeq, calls, cmp, ret>>

(***************************************************************************)
(* The networked provider: DeepSeekProvider.execute / streamResponse        *)
(* The response body is a sequence of pieces: an event line is a head piece *)
(* (the 'data: ' prefix and the first half of the JSON text) followed by a  *)
(* tail piece (the rest of the JSON text); NL is '\n' and CR is '\r'.       *)
(***************************************************************************)
NL == [k |-> "nl", ev |-> 0]

CR == [k |-> "cr", ev |-> 0]

DataHead(e) == [k |-> "head", ev |-> e]

DataTail(e) == [k |-> "tail", ev |-> e]

\* one element of delta.tool_calls; "" and <<>> stand for an absent field
Delta(toolIndex, id, name, arguments) ==
  [index |-> toolIndex, id |-> id, name |-> name, arguments |-> arguments]

\* a DeepSeekStreamChunk: choices[0].delta and choices[0].finish_reason
StreamChunk(content, tool_calls, finish_reason) ==
  [content |-> content, tool_calls |-> tool_calls,
   finish_reason |-> finish_reason]

\* the events a backend sends, by number; DoneMark is the line 'data: [DONE]'
EventTable ==
  << StreamChunk(<<"t1">>, <<>>, ""),
     StreamChunk(<<>>, <<Delta(0, "call_0", "read_file", <<"{a:">>)>>, ""),
     StreamChunk(<<>>, <<Delta(0, "", "", <<"1}">>)>>, ""),
     StreamChunk(<<>>, <<Delta(1, "call_1", "glob", <<"{}">>)>>, ""),
     StreamChunk(<<>>, <<>>, "tool_calls"),
     StreamChunk(<<>>, <<>>, "stop"),
     StreamChunk(<<>>, <<Delta(0, "call_0", "read_file", <<"{}">>),
                         Delta(1, "call_1", "glob", <<"{a:">>)>>, "") >>

DoneMark == Len(EventTable) + 1

\* the argument texts JSON.parse accepts
JsonParses(arguments) == arguments \in {<<"{}">>, <<"{a:", "1}">>}

\* the bytes of one event: 'data: ...' and the blank line that ends it
EventBytes(e, eol) == <<DataHead(e), DataTail(e)>> \o eol \o eol

RECURSIVE BodyBytes(_, _)
BodyBytes(evs, eol) ==
  IF evs = <<>> THEN <<>>
  ELSE EventBytes(Head(evs), eol) \o BodyBytes(Tail(evs), eol)

\* buffer.split('\n'): the pieces between the newlines; the last part is
\* what follows the last newline (empty when the text ends with one)
RECURSIVE split(_)
split(text) ==
  IF \A i \in DOMAIN text : text[i] # NL THEN <<text>>
  ELSE LET i == CHOOSE j \in DOMAIN text :
                  text[j] = NL /\ \A h \in 1..(j - 1) : text[h] # NL
       IN  <<SubSeq(text, 1, i - 1)>> \o
           split(SubSeq(text, i + 1, Len(text)))

\* buffer = lines.pop() || '': the unfinished last line stays in the buffer
incompleteLineDropped(parts) == <<>>

incompleteLine(parts) == parts[Len(parts)]

\* the lines left in the array after lines.pop()
completeLines(parts) == SubSeq(parts, 1, Len(parts) - 1)

\* line.trim(): white space (here '\r') removed at both ends
RECURSIVE trim(_)
trim(line) ==
  IF line = <<>> THEN line
  ELSE IF Head(line) = CR THEN trim(Tail(line))
  ELSE IF line[Len(line)] = CR THEN trim(SubSeq(line, 1, Len(line) - 1))
  ELSE line

\* The event number a line yields, 0 when the line is skipped: an empty
\* line, 'data: [DONE]', a line without the 'data: ' prefix, or a line
\* whose JSON text is incomplete (JSON.parse throws, the catch ignores it).
parseLine(line) ==
  LET trimmedLine == trim(line)
  IN  IF /\ Len(trimmedLine) = 2
         /\ trimmedLine[1].k = "head"
         /\ trimmedLine[2] = DataTail(trimmedLine[1].ev)
         /\ trimmedLine[1].ev # DoneMark
      THEN trimmedLine[1].ev
      ELSE 0

\* currentToolCall = null
NoToolCall == [set |-> FALSE, id |-> "", name |-> "", arguments |-> <<>>]

\* the element pushed onto toolCalls
ToolCall(c) == [id |-> c.id, name |-> c.name, arguments |-> c.arguments]

\* if (currentToolCall && currentToolCall.id && currentToolCall.name)
\*   toolCalls.push(...)
pushCurrent(st) ==
  IF /\ st.currentToolCall.set
     /\ st.currentToolCall.id # ""
     /\ st.currentToolCall.name # ""
  THEN [st EXCEPT !.toolCalls = Append(@, ToolCall(st.currentToolCall))]
  ELSE st

\* the body of `for (const toolCallDelta of toolCallDeltas)`
handleToolCallDelta(st, d) ==
  IF d.index # st.currentToolIndex
  THEN [pushCurrent(st) EXCEPT
          !.currentToolIndex = d.index,
          !.currentToolCall = [set |-> TRUE, id |-> d.id, name |-> d.name,
                               arguments |-> d.arguments]]
  ELSE IF st.currentToolCall.set
  THEN [st EXCEPT
          !.currentToolCall.id = IF d.id # "" THEN d.id ELSE @,
          !.currentToolCall.name = IF d.name # "" THEN d.name ELSE @,
          !.currentToolCall.arguments = @ \o d.arguments]
  ELSE st

RECURSIVE handleToolCallDeltas(_, _)
handleToolCallDeltas(st, ds) ==
  IF ds = <<>> THEN st
  ELSE handleToolCallDeltas(handleToolCallDelta(st, Head(ds)), Tail(ds))

\* one parsed chunk: content, tool-call deltas, finish_reason
handleChunk(st, e) ==
  LET chunk == EventTable[e]
      s1 == [st EXCEPT !.fullResponse = @ \o chunk.content,
                       !.sink = @ \o chunk.content,
                       !.received = Append(@, e)]
      s2 == handleToolCallDeltas(s1, chunk.tool_calls)
  IN  IF chunk.finish_reason = "tool_calls" THEN pushCurrent(s2) ELSE s2

\* `for (const line of lines)`
RECURSIVE handleLines(_, _)
handleLines(st, lines) ==
  IF lines = <<>> THEN st
  ELSE LET e == parseLine(Head(lines))
       IN  handleLines(IF e = 0 THEN st ELSE handleChunk(st, e),
                       Tail(lines))

\* the response bodies a backend answers with: text only (CRLF line ends),
\* text and one call in two fragments, two calls with interleaved
\* fragments, two calls in one chunk (the second with unfinished JSON),
\* a body whose last event line has no line end, and two calls one after
\* the other
Bodies ==
  { BodyBytes(<<1, 6, DoneMark>>, <<CR, NL>>),
    BodyBytes(<<1, 2, 3, 5, DoneMark>>, <<NL>>),
    BodyBytes(<<2, 4, 3, 5, DoneMark>>, <<NL>>),
    BodyBytes(<<7, 5, DoneMark>>, <<NL>>),
    BodyBytes(<<2, 3>>, <<NL>>) \o <<DataHead(5), DataTail(5)>>,
    BodyBytes(<<2, 3, 4, 5, DoneMark>>, <<NL>>) }

\* error.message of a body stream that broke, as a sequence of words
BreakMessages ==
  { <<"terminated">>, <<"other", "side", "closed">>, <<"read", "ECONNRESET">> }

\* error.message.includes(word)
includes(message, word) == \E i \in DOMAIN message : message[i] = word

\* the test of the inner catch for a stream termination error
isTerminationError(message) ==
  \/ includes(message, "terminated")
  \/ includes(message, "aborted")
  \/ includes(message, "closed")
  \/ includes(message, "network")

DeepSeekMessage(role, content, tool_calls, tool_call_id) ==
  [role |-> role, content |-> content, tool_calls |-> tool_calls,
   tool_call_id |-> tool_call_id]

\* the assistant message that carries the tool calls of a turn
assistantMessage(text, tcs) == DeepSeekMessage("assistant", text, tcs, "")

\* a tool result message
toolMessage(content, id) == DeepSeekMessage("tool", content, <<>>, id)

NoDsResult ==
  [settled |-> FALSE, success |-> FALSE, response |-> <<>>, error |-> <<>>]

DsSuccess(response) ==
  [settled |-> TRUE, success |-> TRUE, response |-> response, error |-> <<>>]

DsFailure(error) ==
  [settled |-> TRUE, success |-> FALSE, response |-> <<>>, error |-> error]

NoObs ==
  [stream |-> <<>>, sink |-> <<>>, received |-> <<>>, ended |-> FALSE,
   midLine |-> FALSE, broke |-> FALSE, log |-> <<>>]

InitDs ==
  /\ dsPc = "idle"
  /\ dsMessages = <<>>
  /\ request = <<>>
  /\ wire = <<>>
  /\ buffer = <<>>
  /\ fullResponse = <<>>
  /\ toolCalls = <<>>
  /\ currentToolCall = NoToolCall
  /\ currentToolIndex = -1
  /\ toolAt = 0
  /\ dsAborted = FALSE
  /\ dsResult = NoDsResult
  /\ turn = 0
  /\ obs = NoObs

\* the locals of the read loop of streamResponse
readLocals == <<buffer, fullResponse, toolCalls, currentToolCall,
                currentToolIndex>>

\* execute(): without an API key a failure; otherwise the system message and
\* the prompt, then streamResponse, which sends the request
DsExecute(hasKey) ==
  /\ dsPc = "idle"
  /\ IF hasKey
     THEN LET ms == << DeepSeekMessage("system", <<"system">>, <<>>, ""),
                       DeepSeekMessage("user", <<"prompt">>, <<>>, "") >>
          IN  /\ dsMessages' = ms
              /\ request' = ms
              /\ dsPc' = "fetch"
              /\ dsResult' = dsResult
     ELSE /\ dsResult' = DsFailure(<<"DeepSeek API key is not set">>)
          /\ dsPc' = "done"
          /\ UNCHANGED <<dsMessages, request>>
  /\ UNCHANGED <<wire, readLocals, toolAt, dsAborted, turn, obs>>

\* the cancellation token fires
DsAbort ==
  /\ dsPc \in {"fetch", "reading", "tools"}
  /\ ~dsAborted
  /\ dsAborted' = TRUE
  /\ UNCHANGED <<dsPc, dsMessages, request, wire, readLocals, toolAt, dsResult,
                 turn, obs>>

\* `await fetch(...)` settles: the response with its body, an HTTP error, a
\* response without body, a rejection (network failure), or the AbortError
\* of a fired signal
Fetch(outcome, body) ==
  /\ dsPc = "fetch"
  /\ turn < MaxTurns
  /\ turn' = turn + 1
  /\ (outcome = "AbortError") = dsAborted
  /\ IF outcome = "ok"
     THEN /\ dsPc' = "reading"
          /\ wire' = body
          /\ buffer' = <<>>
          /\ fullResponse' = <<>>
          /\ toolCalls' = <<>>
          /\ currentToolCall' = NoToolCall
          /\ currentToolIndex' = -1
          /\ obs' = [obs EXCEPT !.stream = body, !.received = <<>>,
                                !.ended = FALSE, !.midLine = FALSE,
                                !.log = <<>>]
          /\ dsResult' = dsResult
     ELSE /\ dsPc' = "done"
          /\ dsResult' =
               CASE outcome = "AbortError" ->
                      DsFailure(<<"Operation cancelled">>)
                 [] outcome = "http error" ->
                      DsFailure(<<"DeepSeek API error">>)
                 [] outcome = "no body" ->
                      DsFailure(<<"No response body from DeepSeek API">>)
                 [] OTHER ->
                      DsFailure(<<"DeepSeek API request failed", "fetch failed">>)
          /\ UNCHANGED <<wire, readLocals, obs>>
  /\ UNCHANGED <<dsMessages, request, toolAt, dsAborted>>

\* reader.read() yields the next n pieces of the body: they are appended to
\* the buffer, the complete lines are handled, the rest stays buffered
ReadChunk(n) ==
  /\ dsPc = "reading"
  /\ ~dsAborted
  /\ n \in 1..Len(wire)
  /\ LET parts == split(buffer \o SubSeq(wire, 1, n))
         st == handleLines(
                 [fullResponse |-> fullResponse, toolCalls |-> toolCalls,
                  currentToolCall |-> currentToolCall,
                  currentToolIndex |-> currentToolIndex,
                  sink |-> obs.sink, received |-> obs.received],
                 completeLines(parts))
         rest == incompleteLine(parts)
     IN  /\ buffer' = rest
         /\ fullResponse' = st.fullResponse
         /\ toolCalls' = st.toolCalls
         /\ currentToolCall' = st.currentToolCall
         /\ currentToolIndex' = st.currentToolIndex
         /\ obs' = [obs EXCEPT
                      !.sink = st.sink,
                      !.received = st.received,
                      !.midLine = @ \/ (Len(rest) = 1 /\ rest[1].k = "head")]
  /\ wire' = SubSeq(wire, n + 1, Len(wire))
  /\ UNCHANGED <<dsPc, dsMessages, request, toolAt, dsAborted, dsResult, turn>>

\* The tool loop from call i up to its next await: a call whose arguments
\* do not parse gets its error message at once; a call whose arguments parse
\* starts executeTool (at = i); after the last call at = 0.
RECURSIVE runToolsSkipping(_, _, _)
runToolsSkipping(tcs, st, i) ==
  IF i > Len(tcs) THEN [st EXCEPT !.at = 0]
  ELSE IF JsonParses(tcs[i].arguments)
  THEN [st EXCEPT !.at = i, !.log = Append(@, <<"start", i>>)]
  ELSE runToolsSkipping(tcs, st, i + 1)

RECURSIVE runTools(_, _, _)
runTools(tcs, st, i) ==
  IF i > Len(tcs) THEN [st EXCEPT !.at = 0]
  ELSE IF JsonParses(tcs[i].arguments)
  THEN [st EXCEPT !.at = i, !.log = Append(@, <<"start", i>>)]
  ELSE runTools(tcs,
                [st EXCEPT !.messages =
                   Append(@, toolMessage(<<"Error executing tool">>,
                                         tcs[i].id))],
                i + 1)

\* the tool loop has run up to an await: either executeTool is pending or
\* streamResponse is called again and sends the extended message list
afterTools(st) ==
  /\ dsMessages' = st.messages
  /\ toolAt' = st.at
  /\ obs' = [obs EXCEPT !.log = st.log, !.ended = TRUE]
  /\ IF st.at = 0
     THEN dsPc' = "fetch" /\ request' = st.messages
     ELSE dsPc' = "tools" /\ request' = request

\* reader.read() reports done: the turn is complete
ReadDone ==
  /\ dsPc = "reading"
  /\ ~dsAborted
  /\ wire = <<>>
  /\ IF Len(toolCalls) > 0
     THEN /\ afterTools(runTools(toolCalls,
                 [messages |-> Append(dsMessages,
                                 assistantMessage(fullResponse, toolCalls)),
                  log |-> obs.log, at |-> 0], 1))
          /\ dsResult' = dsResult
     ELSE /\ dsResult' = DsSuccess(fullResponse)
          /\ dsPc' = "done"
          /\ obs' = [obs EXCEPT !.ended = TRUE]
          /\ UNCHANGED <<dsMessages, request, toolAt>>
  /\ UNCHANGED <<wire, readLocals, dsAborted, turn>>

\* executeTool of the pending call returns its text (a result, or the text
\* of the error it caught); the loop goes on with the next call
ToolFinish(text) ==
  /\ dsPc = "tools"
  /\ afterTools(runTools(toolCalls,
          [messages |-> Append(dsMessages,
                          toolMessage(<<text>>, toolCalls[toolAt].id)),
           log |-> Append(obs.log, <<"end", toolAt>>), at |-> 0],
          toolAt + 1))
  /\ UNCHANGED <<wire, readLocals, dsAborted, dsResult, turn>>

\* reader.read() rejects because the body stream broke
StreamBreak(message) ==
  /\ dsPc = "reading"
  /\ ~dsAborted
  /\ dsPc' = "done"
  /\ obs' = [obs EXCEPT !.broke = TRUE]
  /\ dsResult' =
       IF isTerminationError(message)
       THEN IF Len(fullResponse) > 0
            THEN DsSuccess(fullResponse)
            ELSE DsFailure(<<"DeepSeek API connection terminated">>
                           \o message)
       ELSE \* rethrown, caught by the outer catch
            DsFailure(<<"DeepSeek API request failed">> \o message)
  /\ UNCHANGED <<dsMessages, request, wire, readLocals, toolAt, dsAborted,
                 turn>>

\* reader.read() rejects with the AbortError of the fired signal
StreamAbort ==
  /\ dsPc = "reading"
  /\ dsAborted
  /\ dsPc' = "done"
  /\ dsResult' = DsFailure(<<"Operation cancelled">>)
  /\ UNCHANGED <<dsMessages, request, wire, readLocals, toolAt, dsAborted,
                 turn, obs>>

\* a step of the networked provider
Ds(A) == A /\ UNCHANGED <<storeVars, procVars, chatVars, splitVars,
                       sessionVars, promptVars,
                       normVars, startVars, turnVars, toolVars>>

DsNext ==
  \/ \E hasKey \in BOOLEAN : Ds(DsExecute(hasKey))
  \/ Ds(DsAbort)
  \/ \E outcome \in {"ok", "http error", "no body", "rejected", "AbortError"},
        body \in Bodies : Ds(Fetch(outcome, body))
  \/ \E n \in 1..Len(wire) : Ds(ReadChunk(n))
  \/ Ds(ReadDone)
  \/ \E text \in {"result", "Error executing"} : Ds(ToolFinish(text))
  \/ \E message \in BreakMessages : Ds(StreamBreak(message))
  \/ Ds(StreamAbort)


(***************************************************************************)
(* Child-process lifecycle of the CLI-backed providers                      *)
(* BaseProvider.execute / handleChildProcess, and the override of the       *)
(* copilot provider.  Texts are sequences of chunk tokens.                  *)
(***************************************************************************)
CliAdapters == {"claude", "gemini", "cursor", "copilot"}

\* adapters that run BaseProvider.handleChildProcess unchanged
BaseAdapters == {"claude", "gemini", "cursor"}

Platforms == {"posix", "win32"}

\* chunk tokens: ordinary output, and the quota signature of the adapter
Chunks == {"text", "quota"}

NoResult ==
  [settled |-> FALSE, success |-> FALSE, hasResponse |-> FALSE,
   response |-> <<>>, error |-> <<>>, tokenLimitReached |-> "undefined"]

ProviderResult(success, hasResponse, response, error, tokenLimitReached) ==
  [settled |-> TRUE, success |-> success, hasResponse |-> hasResponse,
   response |-> response, error |-> error,
   tokenLimitReached |-> tokenLimitReached]

Bool(b) == IF b THEN "true" ELSE "false"

\* detectTokenLimit: the adapter's signature occurs in the output
detectTokenLimit(output) ==
  \E i \in DOMAIN output : output[i] = "quota"

\* parseOutput: always a success carrying the text found in the output
parseOutput(output) ==
  ProviderResult(TRUE, TRUE, output, <<>>, "undefined")

OperationCancelled == <<"Operation cancelled">>

\* stderr || `Command exited with code ${code}`
exitError(err, code) ==
  IF err # <<>> THEN err ELSE <<"Command exited with code", code>>

\* resolve(value): only the first call settles the promise
resolve(value) ==
  /\ result' = IF result.settled THEN result ELSE value
  /\ run' = [run EXCEPT !.pc = "settled", !.resolves = @ + 1]

InitProc ==
  /\ run = [pc |-> "idle", adapter |-> "claude", platform |-> "posix",
            resolves |-> 0]
  /\ child = [pid |-> FALSE, state |-> "none", code |-> "0",
              group |-> FALSE, errorEvent |-> FALSE]
  /\ stdout = <<>>
  /\ stderr = <<>>
  /\ isAborted = FALSE
  /\ signal = [given |-> FALSE, aborted |-> FALSE, listening |-> FALSE,
               firedWhile |-> "never", fires |-> 0]
  /\ result = NoResult
  /\ fault = ""

\* execute(): spawn the child and attach the handlers.
\* sig: "none" no signal passed, "fresh" a signal not yet aborted,
\* "aborted" a signal that had fired before the call (its listener is
\* registered but the abort event is never dispatched again).
\* spawned: whether the operating system could start the process.
Execute(adapter, platform, sig, spawned) ==
  /\ run.pc = "idle"
  /\ fault = ""
  /\ run' = [run EXCEPT !.pc = "running", !.adapter = adapter,
                        !.platform = platform]
  /\ child' = [pid |-> spawned,
               state |-> IF spawned THEN "running" ELSE "failed",
               code |-> IF spawned THEN "0" ELSE "-2",
               group |-> spawned, errorEvent |-> ~spawned]
  /\ signal' = [given |-> sig # "none", aborted |-> sig = "aborted",
                listening |-> sig # "none", firedWhile |-> "never",
                fires |-> 0]
  /\ UNCHANGED <<stdout, stderr, isAborted, result, fault>>

\* child.stdout.on('data')
StdoutData(chunk) ==
  /\ run.pc = "running"
  /\ fault = ""
  /\ child.state \in {"running", "exited"}
  /\ Len(stdout) < MaxChunks
  /\ stdout' = Append(stdout, chunk)
  /\ UNCHANGED <<run, child, stderr, isAborted, signal, result, fault>>

\* child.stderr.on('data')
StderrData(chunk) ==
  /\ run.pc = "running"
  /\ fault = ""
  /\ child.state \in {"running", "exited"}
  /\ Len(stderr) < MaxChunks
  /\ stderr' = Append(stderr, chunk)
  /\ UNCHANGED <<run, child, stdout, isAborted, signal, result, fault>>

\* the child process ends by itself with an exit code; lingering: helper
\* processes of its process group are still alive (and keep its pipes open)
ChildExit(code, lingering) ==
  /\ run.pc = "running"
  /\ fault = ""
  /\ child.state = "running"
  /\ child' = [child EXCEPT !.state = "exited", !.code = code,
                            !.group = lingering]
  /\ UNCHANGED <<run, stdout, stderr, isAborted, signal, result, fault>>

\* the abort listener of BaseProvider.handleChildProcess (lines 69-121)
baseAbortListener ==
  IF child.pid /\ ~isAborted
  THEN /\ isAborted' = TRUE
       /\ IF run.platform = "win32"
          THEN \* taskkill /T /F, the PowerShell tree kill, child.kill
               /\ child' = IF child.state = "running"
                           THEN [child EXCEPT !.state = "exited",
                                              !.code = "null",
                                              !.group = FALSE]
                           ELSE [child EXCEPT !.group = FALSE]
               /\ fault' = fault
          ELSE \* process.kill(-child.pid, 'SIGKILL') throws ESRCH when the
               \* process group has no member left
               IF child.group
               THEN /\ child' = IF child.state = "running"
                                THEN [child EXCEPT !.state = "exited",
                                                   !.code = "null",
                                                   !.group = FALSE]
                                ELSE [child EXCEPT !.group = FALSE]
                    /\ fault' = fault
               ELSE /\ child' = child
                    /\ fault' = "ESRCH"
  ELSE UNCHANGED <<isAborted, child, fault>>

\* the abort listener of the copilot override: child.kill() sends SIGTERM to
\* the direct child only; term says whether the child dies from it
copilotAbortListener(term) ==
  /\ child' = IF child.state = "running" /\ term = "dies"
              THEN [child EXCEPT !.state = "exited", !.code = "null"]
              ELSE child
  /\ UNCHANGED <<isAborted, fault>>

\* the cancellation token fires while execute() is pending
Abort(term) ==
  /\ run.pc = "running"
  /\ fault = ""
  /\ signal.given
  /\ ~signal.aborted
  /\ signal' = [signal EXCEPT !.aborted = TRUE,
                              !.firedWhile = child.state,
                              !.fires = 1]
  /\ IF ~signal.listening
     THEN UNCHANGED <<isAborted, child, fault>>
     ELSE IF run.adapter \in BaseAdapters
     THEN baseAbortListener
     ELSE copilotAbortListener(term)
  /\ UNCHANGED <<run, stdout, stderr, result>>

\* abort() is called again on the controller that has fired during this
\* execution, with an AbortSignal that delivered every abort() to its
\* listeners
AbortAgainDelivered(term) ==
  /\ run.pc = "running"
  /\ fault = ""
  /\ signal.fires \in 1..(MaxFires - 1)
  /\ signal' = [signal EXCEPT !.fires = @ + 1]
  /\ IF ~signal.listening
     THEN UNCHANGED <<isAborted, child, fault>>
     ELSE IF run.adapter \in BaseAdapters
     THEN baseAbortListener
     ELSE copilotAbortListener(term)
  /\ UNCHANGED <<run, stdout, stderr, result>>

\* abort() is called again on the controller that has fired during this
\* execution (the cancel key handler runs twice on the same isLoading and
\* abortController state): the signal is aborted already, no abort event
\* is dispatched
AbortAgain(term) ==
  /\ run.pc = "running"
  /\ fault = ""
  /\ signal.fires \in 1..(MaxFires - 1)
  /\ signal' = [signal EXCEPT !.fires = @ + 1]
  /\ UNCHANGED <<run, child, stdout, stderr, isAborted, result, fault>>

\* child.on('close') of BaseProvider.handleChildProcess (lines 147-183)
baseOnClose(code) ==
  IF isAborted
  THEN resolve(ProviderResult(FALSE, FALSE, <<>>, OperationCancelled,
                              "false"))
  ELSE IF code # "0"
  THEN resolve(ProviderResult(FALSE, FALSE, <<>>, exitError(stderr, code),
                              Bool(detectTokenLimit(stdout \o stderr))))
  ELSE resolve([parseOutput(stdout) EXCEPT !.tokenLimitReached =
                  Bool(detectTokenLimit(stdout \o stderr))])

\* child.on('close') of the copilot override
copilotOnClose(code) ==
  IF code # "0"
  THEN resolve(ProviderResult(FALSE, TRUE, stdout \o stderr,
                              exitError(stderr, code), "undefined"))
  ELSE resolve(parseOutput(stdout))

\* the 'close' event: the process has ended and its pipes are closed
Close ==
  /\ run.pc \in {"running", "settled"}
  /\ fault = ""
  /\ child.state \in {"exited", "failed"}
  /\ ~child.errorEvent
  /\ child' = [child EXCEPT !.state = "closed", !.group = FALSE]
  /\ IF run.adapter \in BaseAdapters
     THEN baseOnClose(child.code)
     ELSE copilotOnClose(child.code)
  /\ UNCHANGED <<stdout, stderr, isAborted, signal, fault>>

\* the 'error' event of a child that could not be spawned.  The base class
\* resolves with a failure; the copilot override registers no listener, so
\* the event is thrown as an uncaught exception.
ErrorEvent ==
  /\ run.pc = "running"
  /\ fault = ""
  /\ child.errorEvent
  /\ child' = [child EXCEPT !.errorEvent = FALSE]
  /\ IF run.adapter \in BaseAdapters
     THEN /\ resolve(ProviderResult(FALSE, FALSE, <<>>,
                                    <<"Failed to execute command">>,
                                    "false"))
          /\ fault' = fault
     ELSE /\ fault' = "unhandled error event"
          /\ UNCHANGED <<run, result>>
  /\ UNCHANGED <<stdout, stderr, isAborted, signal>>

\* a step of a provider execution
Proc(A) == A /\ UNCHANGED <<storeVars, dsVars, chatVars, splitVars,
                       sessionVars, promptVars,
                       normVars, startVars, turnVars, toolVars>>

ProcNext ==
  \/ \E adapter \in CliAdapters, platform \in Platforms,
        sig \in {"none", "fresh", "aborted"}, spawned \in BOOLEAN :
       Proc(Execute(adapter, platform, sig, spawned))
  \/ \E chunk \in Chunks : Proc(StdoutData(chunk))
  \/ \E chunk \in Chunks : Proc(StderrData(chunk))
  \/ \E code \in {"0", "1"}, lingering \in BOOLEAN :
       Proc(ChildExit(code, lingering))
  \/ \E term \in {"dies", "ignored"} : Proc(Abort(term))
  \/ \E term \in {"dies", "ignored"} : Proc(AbortAgain(term))
  \/ Proc(Close)
  \/ Proc(ErrorEvent)

InitExec ==
  /\ InitStore(0)
  /\ InitProc
  /\ InitDs
  /\ InitChat
  /\ InitSplit
  /\ InitSession
  /\ InitPrompt
  /\ InitNorm
  /\ InitStart
  /\ InitTurn
  /\ InitTool

SpecProc == InitExec /\ [][ProcNext]_vars

\* an execution of the networked provider
InitStream ==
  /\ InitStore(0)
  /\ InitProc
  /\ InitDs
  /\ InitChat
  /\ InitSplit
  /\ InitSession
  /\ InitPrompt
  /\ InitNorm
  /\ InitStart
  /\ InitTurn
  /\ InitTool

SpecDS == InitStream /\ [][DsNext]_vars

\* (role, provider) of the messages the chat layer appends
Authors == {<<"user", NoProvider>>, <<"assistant", "claude">>}

\* provider argument of updateLastAssistantMessage (NoProvider: omitted)
TagProviders == {NoProvider, "claude", "gemini"}

\* keep counts a caller passes to compact()
KeepCounts == 0..MaxKeep

\* outcomes of the availability checks: the set of installed backends
AvailSets == {{}, {"gemini", "cursor"},
              {priorityOrder[i] : i \in DOMAIN priorityOrder}}

\* a step of the context store
Store(A) == A /\ UNCHANGED <<procVars, dsVars, chatVars, splitVars,
                       sessionVars, promptVars,
                       normVars, startVars, turnVars, toolVars>>

Init ==
  /\ \E len \in {0, ShortLen, AUTO_COMPACT_THRESHOLD} : InitStore(len)
  /\ InitProc
  /\ InitDs
  /\ InitChat
  /\ InitSplit
  /\ InitSession
  /\ InitPrompt
  /\ InitNorm
  /\ InitStart
  /\ InitTurn
  /\ InitTool

\* Calls of the store are made one after the other (each awaited).
Next ==
  \/ Store(Tick)
  \/ \E d \in timers : Store(TimerFire(d))
  \/ /\ calls < MaxCalls
     /\ \E a \in Authors : Store(AddMessage(a[1], a[2]))
  \/ /\ calls < MaxCalls
     /\ \E provider \in TagProviders :
          Store(UpdateLastAssistantMessage(provider))
  \/ /\ calls < MaxCalls
     /\ \E keepLast \in KeepCounts : Store(Compact(keepLast))
  \/ \E avail \in AvailSets : Store(CompactSucceed(avail))
  \/ \E avail \in AvailSets, execution \in {"response", "empty", "failed"} :
       Store(CompactFail(avail, execution))

Spec == Init /\ [][Next]_vars

(***************************************************************************)
(* The append-only scenario: a fresh session, a summarizer that always      *)
(* answers, messages appended one at a time, each call awaited.             *)
(***************************************************************************)
\* the chat appends a user prompt, then the assistant's answer, in turn
AuthorAt(i) == IF i % 2 = 1 THEN <<"user", NoProvider>>
               ELSE <<"assistant", "claude">>

AppendNext ==
  \/ /\ msgSeq <= MaxAppends
     /\ Store(AddMessage(AuthorAt(msgSeq)[1], AuthorAt(msgSeq)[2]))
  \/ \E avail \in AvailSets : Store(CompactSucceed(avail))

InitAppend ==
  /\ InitStore(0)
  /\ InitProc
  /\ InitDs
  /\ InitChat
  /\ InitSplit
  /\ InitSession
  /\ InitPrompt
  /\ InitNorm
  /\ InitStart
  /\ InitTurn
  /\ InitTool

SpecAppend == InitAppend /\ [][AppendNext]_vars

(***************************************************************************)
(* Properties of the context store                                          *)
(***************************************************************************)
\* a compaction that reached the summarizer has returned
CompactionReturned == ret.cause # "none"

\* outcome (a): one summary of the removed prefix, then the last keep messages
OutcomeSummarized(r) ==
  LET L == Len(r.before)
  IN  /\ r.compacted
      /\ Len(r.after) = r.keep + 1
      /\ r.after[1].role = "assistant"
      /\ r.after[1].content.kind = "summary"
      /\ r.after[1].content.n = L - r.keep
      /\ r.after[1].content.n >= 1
      /\ \A i \in 1..r.keep : r.after[i + 1] = r.before[L - r.keep + i]

\* outcome (b): the history untouched and an error returned
OutcomeUntouched(r) ==
  /\ ~r.compacted
  /\ r.error # ""
  /\ r.after = r.before

\* C1: for every history of length L and every keepN with 0 <= keepN < L,
\* compact(keepN) ends either with exactly keepN + 1 messages (one summary
\* followed by the original last keepN messages) or with the original
\* history and an error; nothing else.
C1_CompactionTwoOutcomes ==
  (CompactionReturned /\ ret.keep >= 0 /\ ret.keep < Len(ret.before)) =>
    (OutcomeSummarized(ret) \/ OutcomeUntouched(ret))

\* the step in which a compaction returns without a summary
CompactionFails ==
  /\ cmp.pc = "awaiting"
  /\ cmp'.pc = "idle"
  /\ ret'.cause # "ok"

\* the step in which a manual compact() call starts to wait for its summary
ManualCompactionBegins ==
  /\ cmp.pc = "idle"
  /\ cmp'.pc = "awaiting"
  /\ ~cmp'.auto

\* C2: a compaction that cannot obtain a summary (no backend available or
\* the delegated call failed) leaves the in-memory history and the session
\* file exactly as they were when it began (for auto-compaction: with the
\* just-appended message) and returns compacted = false, removed = 0 and a
\* non-empty error.
C2_FailedCompactionTouchesNothing ==
  [][ /\ CompactionFails =>
           /\ context' = context
           /\ files' = files
           /\ index' = index
           /\ context.messages = cmp.before
           /\ (cmp.auto => Persisted'.messages = cmp.before)
           /\ ~ret'.compacted
           /\ ret'.removed = 0
           /\ ret'.error # ""
      /\ ManualCompactionBegins =>
           /\ context' = context
           /\ files' = files
           /\ index' = index ]_vars

\* an auto-compaction inside addMessage has failed
C2_Witness ==
  /\ ret.op = "addMessage"
  /\ ret.cause = "call-failed"
  /\ ret.error # ""
  /\ Len(context.messages) = AUTO_COMPACT_THRESHOLD + 1

\* number of messages appended so far
Appended == msgSeq - 1

\* the i-th message of the append-only scenario
Original(i) == Message(AuthorAt(i)[1], Text(i), AuthorAt(i)[2])

\* C3: from a fresh session with an always-succeeding summarizer, no
\* compaction happens during the first 50 appends, and right after the 51st
\* append the history has exactly 21 messages: the summary, then the
\* original messages 32 to 51 in order.
C3_FiftyFirstAppendCompacts ==
  /\ Appended <= 50 =>
       /\ cmp.pc = "idle"
       /\ ~ret.compacted
       /\ context.messages = [i \in 1..Appended |-> Original(i)]
  /\ (Appended = 51 /\ cmp.pc = "idle") =>
       /\ Len(context.messages) = 21
       /\ context.messages[1].content.kind = "summary"
       /\ \A i \in 1..20 : context.messages[i + 1] = Original(31 + i)

\* the 51st append has returned
C3_Witness ==
  /\ Appended = 51
  /\ cmp.pc = "idle"
  /\ ret.op = "addMessage"
  /\ ret.compacted
  /\ ret.removed = 31

\* every request and every trailing timer has run
Settled == timers = {} /\ cmp.pc = "idle"

\* C4: after a burst of save requests arriving faster than the 500 ms
\* throttle, once the requests and the trailing timer have settled the
\* persisted session equals the in-memory state of the last request.
C4_NoLostWrites == Settled => Persisted = context

\* three updates within the throttle window of the first, then the timer
C4_Witness ==
  /\ Settled
  /\ ret.op = "updateLastAssistantMessage"
  /\ ret.ok
  /\ ret.at = T0
  /\ msgSeq = 4
  /\ lastSaveTime > T0
  /\ Persisted.messages[Len(Persisted.messages)].content = Text(3)

(***************************************************************************)
(* Properties of the child-process lifecycle                                *)
(***************************************************************************)
\* the result every cancelled execution must resolve with
IsCancelledResult(r) ==
  /\ r.settled
  /\ ~r.success
  /\ r.error = OperationCancelled
  /\ ~r.hasResponse

\* C5: for every CLI-backed adapter (claude, gemini, cursor and copilot), a
\* cancellation that fires while the child process is running ends the
\* execution with {success: false, error: "Operation cancelled"}: never
\* another error text, never the partial output as a response.
C5_CancelledResult ==
  (result.settled /\ signal.firedWhile = "running") =>
    IsCancelledResult(result)

\* C6: every execute() call settles with a ProviderResult under every
\* ordering of data, close, error and abort events: no exception escapes an
\* event handler, and once the child has closed the promise is settled.
C6_AlwaysSettlesNoFault ==
  /\ fault = ""
  /\ child.state = "closed" => result.settled

(***************************************************************************)
(* Properties of the networked provider                                     *)
(***************************************************************************)
\* C7: when the response stream breaks mid-response for any transport-level
\* reason, the result is a success carrying the accumulated text if any text
\* had been produced before the break (in this or an earlier tool-loop
\* iteration), and a failure only if no text had been produced; whatever
\* the wording of the transport error.
C7_PartialTextSurvivesBreak ==
  obs.broke =>
    /\ dsResult.success = (obs.sink # <<>>)
    /\ dsResult.success => dsResult.response # <<>>

\* the tool-call deltas of a sequence of parsed events, in order of arrival
RECURSIVE DeltasOf(_)
DeltasOf(evs) ==
  IF evs = <<>> THEN <<>>
  ELSE EventTable[Head(evs)].tool_calls \o DeltasOf(Tail(evs))

IndicesOf(ds) == {ds[i].index : i \in DOMAIN ds}

\* the argument fragments received for one index, concatenated in order
RECURSIVE FragmentsAt(_, _)
FragmentsAt(ds, idx) ==
  IF ds = <<>> THEN <<>>
  ELSE (IF Head(ds).index = idx THEN Head(ds).arguments ELSE <<>>)
       \o FragmentsAt(Tail(ds), idx)

\* call c is the call the deltas ds describe for index idx
IsCallOf(c, ds, idx) ==
  /\ \E i \in DOMAIN ds : ds[i].index = idx /\ ds[i].id = c.id
  /\ \E i \in DOMAIN ds : ds[i].index = idx /\ ds[i].name = c.name
  /\ c.arguments = FragmentsAt(ds, idx)

\* the turn-completion signal for tool calls has been received
TurnSignalled ==
  \E i \in DOMAIN obs.received :
    EventTable[obs.received[i]].finish_reason = "tool_calls"

\* C8: when tool-call deltas for several indices arrive in one turn, in any
\* interleaving, the turn ends with exactly one reconstructed call per
\* index, with the id and name received for that index and with the in-order
\* concatenation of all argument fragments received for that index.
C8_OneCallPerIndex ==
  (obs.ended /\ TurnSignalled) =>
    LET ds == DeltasOf(obs.received)
    IN  /\ Len(toolCalls) = Cardinality(IndicesOf(ds))
        /\ \A idx \in IndicesOf(ds) :
             \E j \in DOMAIN toolCalls : IsCallOf(toolCalls[j], ds, idx)

\* the events of a body: the numbers of its head pieces
EventsIn(body) ==
  {body[i].ev : i \in {j \in DOMAIN body : body[j].k = "head"}} \ {DoneMark}

\* all tool-call deltas of the body are at one index
OneIndex(body) ==
  Cardinality(UNION {IndicesOf(EventTable[e].tool_calls) : e \in EventsIn(body)})
    = 1

\* the calls the lines of the whole body yield when no chunk boundary is
\* placed at all
CallsOfBody(body) ==
  handleLines([fullResponse |-> <<>>, toolCalls |-> <<>>,
               currentToolCall |-> NoToolCall, currentToolIndex |-> -1,
               sink |-> <<>>, received |-> <<>>],
              completeLines(split(body))).toolCalls

\* C9: the tool call reconstructed from a stream of argument fragments at
\* one index is the same for every placement of the chunk boundaries in the
\* same byte stream, also inside an event line and also when the last event
\* line has no line end when the stream ends.
C9_ChunkBoundariesDoNotMatter ==
  (obs.ended /\ OneIndex(obs.stream)) => toolCalls = CallsOfBody(obs.stream)

\* a chunk boundary fell inside an event line, and the fragments "{a:" and
\* "1}" were put together to one call
C9_Witness ==
  /\ obs.ended
  /\ obs.midLine
  /\ OneIndex(obs.stream)
  /\ toolCalls = << [id |-> "call_0", name |-> "read_file",
                     arguments |-> <<"{a:", "1}">>] >>

\* the messages from position base + 1 on are the assistant message with
\* the calls tcs followed by k tool results, the i-th keyed by the i-th id
ExtendedBy(ms, base, tcs, k) ==
  /\ Len(ms) = base + 1 + k
  /\ ms[base + 1].role = "assistant"
  /\ ms[base + 1].tool_calls = tcs
  /\ \A i \in 1..k :
       /\ ms[base + 1 + i].role = "tool"
       /\ ms[base + 1 + i].tool_call_id = tcs[i].id

\* tools run one at a time in array order: every start is followed by its
\* end before the next start, and the started calls ascend
OneAtATime(log) ==
  \A j \in DOMAIN log :
    /\ (j % 2 = 1) => log[j][1] = "start"
    /\ (j % 2 = 0) => log[j] = <<"end", log[j - 1][2]>>
    /\ (j > 2 /\ j % 2 = 1) => log[j][2] > log[j - 2][2]

\* while the tool loop of an iteration is waiting for a tool
ToolLoopState ==
  /\ dsPc = "tools" =>
       /\ Len(toolCalls) >= 1
       /\ toolAt \in 1..Len(toolCalls)
       /\ SubSeq(dsMessages, 1, Len(request)) = request
       /\ ExtendedBy(dsMessages, Len(request), toolCalls, toolAt - 1)
       /\ obs.log[Len(obs.log)] = <<"start", toolAt>>
  /\ OneAtATime(obs.log)
  /\ (dsPc = "done" /\ dsResult.success /\ ~obs.broke) => toolCalls = <<>>

\* the step that ends the read loop of a turn with calls, and the step in
\* which a request is sent after a tool loop
ToolLoopStep ==
  /\ (dsPc = "reading" /\ obs'.ended /\ ~obs'.broke /\ Len(toolCalls) >= 1) =>
       dsPc' \in {"tools", "fetch"}
  /\ (dsPc = "tools" /\ dsPc' # "tools") => dsPc' = "fetch"
  /\ (turn >= 1 /\ dsPc' = "fetch" /\ dsPc # "fetch") =>
       /\ Len(toolCalls) >= 1
       /\ request' = dsMessages'
       /\ SubSeq(request', 1, Len(request)) = request
       /\ ExtendedBy(request', Len(request), toolCalls, Len(toolCalls))
  /\ (turn >= 1 /\ request' # request) => (dsPc' = "fetch" /\ dsPc # "fetch")

\* C10: an iteration that ends with n >= 1 calls extends the message list by
\* exactly one assistant message carrying the n calls and then n tool-result
\* messages, the i-th with the id of the i-th call (also when its arguments
\* do not parse or the tool fails); tools run one at a time in array order;
\* then the backend is called again with the extended list; the loop ends
\* with a completed turn only when that turn has no tool calls.
C10_ToolLoop == [][ToolLoopState' /\ ToolLoopStep]_vars

\* two calls, the second with arguments that do not parse: both results
\* were appended, the extended list was sent, and the next turn had no calls
C10_Witness ==
  /\ turn = 2
  /\ dsPc = "done"
  /\ dsResult.success
  /\ toolCalls = <<>>
  /\ Len(request) = 5
  /\ Len(request[3].tool_calls) = 2
  /\ request[4].tool_call_id = "call_0"
  /\ request[4].content = <<"Error executing">>
  /\ request[5].tool_call_id = "call_1"
  /\ request[5].content = <<"Error executing tool">>

(***************************************************************************)
(* The sink of one execution: InkWriter and the callbacks that              *)
(* executeWithProvider gives it; the events are those a provider's          *)
(* handleStreamChunk turns into sink calls.                                 *)
(***************************************************************************)
\* names of the tools a backend reports
ToolNames == {"Read", "Bash"}

\* BaseProvider.shouldDisplayTool
shouldDisplayTool(toolName) == toolName \notin {"Read"}

\* a StreamItem; the fields a kind of item does not have are empty
StreamItem(type, id, name, status, text) ==
  [type |-> type, id |-> id, name |-> name, status |-> status, text |-> text]

\* the position of the last tool item, 0 if there is none
lastToolItem(items) ==
  IF \E i \in DOMAIN items : items[i].type = "tool"
  THEN CHOOSE i \in DOMAIN items :
         /\ items[i].type = "tool"
         /\ \A j \in DOMAIN items : items[j].type = "tool" => j <= i
  ELSE 0

\* inkWriter.activate() before execute()
WriterActivate ==
  /\ uiPc = "idle"
  /\ uiPc' = "streaming"
  /\ isActive' = TRUE
  /\ UNCHANGED <<accumulatedStreamItems, currentToolId, uiEvents>>

\* inkWriter.deactivate() after execute() has returned
WriterDeactivate ==
  /\ uiPc = "streaming"
  /\ uiPc' = "finished"
  /\ isActive' = FALSE
  /\ UNCHANGED <<accumulatedStreamItems, currentToolId, uiEvents>>

\* a writer whose methods do not look at isActive
SinkEventAlways(A) ==
  /\ uiPc \in {"idle", "streaming", "finished"}
  /\ uiEvents < MaxEvents
  /\ uiEvents' = uiEvents + 1
  /\ A
  /\ UNCHANGED <<isActive, uiPc>>

\* a method of the writer is called: before activate(), while the writer is
\* active, or after deactivate()
SinkEvent(A) ==
  /\ uiPc \in {"idle", "streaming", "finished"}
  /\ uiEvents < MaxEvents
  /\ uiEvents' = uiEvents + 1
  /\ IF isActive THEN A
     ELSE UNCHANGED <<accumulatedStreamItems, currentToolId>>
  /\ UNCHANGED <<isActive, uiPc>>

\* writeText -> onTextChunk: extend the last text item or push a new one
onTextChunk(chunk) ==
  /\ accumulatedStreamItems' =
       IF accumulatedStreamItems # <<>>
          /\ accumulatedStreamItems[Len(accumulatedStreamItems)].type = "text"
       THEN [accumulatedStreamItems EXCEPT
               ![Len(accumulatedStreamItems)].text = Append(@, chunk)]
       ELSE Append(accumulatedStreamItems,
                   StreamItem("text", 0, "", "", <<chunk>>))
  /\ UNCHANGED currentToolId

\* showTool -> onToolUse: push a ToolInfo with status running
onToolUse(name) ==
  /\ accumulatedStreamItems' =
       Append(accumulatedStreamItems,
              StreamItem("tool", currentToolId, name, "running", <<>>))
  /\ currentToolId' = currentToolId + 1

\* completeTool -> onToolComplete: set the status of the last tool item
onToolComplete(success) ==
  /\ accumulatedStreamItems' =
       LET i == lastToolItem(accumulatedStreamItems)
       IN  IF i = 0 THEN accumulatedStreamItems
           ELSE [accumulatedStreamItems EXCEPT
                   ![i].status = IF success THEN "success" ELSE "failed"]
  /\ UNCHANGED currentToolId

\* showInfo -> onInfo: push an info item
onInfo ==
  /\ accumulatedStreamItems' =
       Append(accumulatedStreamItems, StreamItem("info", 0, "", "", <<>>))
  /\ UNCHANGED currentToolId

\* handleStreamChunk, case 'tool_use': suppressed tools are not shown
ToolUseEvent(toolName) ==
  IF shouldDisplayTool(toolName)
  THEN SinkEvent(onToolUse(toolName))
  ELSE SinkEvent(UNCHANGED <<accumulatedStreamItems, currentToolId>>)

\* handleStreamChunk, case 'tool_result': always reported to the sink
ToolResultEvent(success) == SinkEvent(onToolComplete(success))

\* a step of the sink
Chat(A) == A /\ UNCHANGED <<storeVars, procVars, dsVars, splitVars,
                       sessionVars, promptVars,
                       normVars, startVars, turnVars, toolVars>>

SinkNext ==
  \/ Chat(WriterActivate)
  \/ Chat(WriterDeactivate)
  \/ Chat(SinkEvent(onTextChunk("t")))
  \/ Chat(SinkEvent(onInfo))
  \/ \E toolName \in ToolNames : Chat(ToolUseEvent(toolName))
  \/ \E success \in BOOLEAN : Chat(ToolResultEvent(success))

InitSink ==
  /\ InitStore(0)
  /\ InitProc
  /\ InitDs
  /\ InitChat
  /\ InitSplit
  /\ InitSession
  /\ InitPrompt
  /\ InitNorm
  /\ InitStart
  /\ InitTurn
  /\ InitTool

SpecSink == InitSink /\ [][SinkNext]_vars

(***************************************************************************)
(* Properties of the sink                                                   *)
(***************************************************************************)
\* C11: along every sequence of showTool / completeTool events of one
\* execution (also completions of tools whose display was suppressed, and
\* more completions than displayed tools), each displayed ToolInfo is created
\* with status running, changes its status at most once, and once it is
\* success or failed it never changes again.
C11_ToolStatusMonotonic ==
  [][ /\ \A i \in DOMAIN accumulatedStreamItems' :
           (i \notin DOMAIN accumulatedStreamItems
            /\ accumulatedStreamItems'[i].type = "tool") =>
             accumulatedStreamItems'[i].status = "running"
      /\ \A i \in DOMAIN accumulatedStreamItems :
           (accumulatedStreamItems[i].type = "tool"
            /\ accumulatedStreamItems[i].status # "running") =>
             /\ i \in DOMAIN accumulatedStreamItems'
             /\ accumulatedStreamItems'[i] = accumulatedStreamItems[i] ]_vars

(***************************************************************************)
(* Safe split points of streamed text: chat/utils/messageSplitting.ts       *)
(* A text is a sequence of characters; positions are counted from 0 as in   *)
(* the source.                                                              *)
(***************************************************************************)
\* the characters that matter: a backtick, a line feed, any other character
Chars == {"bt", "nl", "a"}

\* content.substring(i, i + 3) is the fence delimiter (three backticks)
isFenceAt(content, i) ==
  /\ i >= 0
  /\ i + 3 <= Len(content)
  /\ content[i + 1] = "bt"
  /\ content[i + 2] = "bt"
  /\ content[i + 3] = "bt"

\* the backward loop of findEnclosingCodeBlockStart from position i
RECURSIVE scanBackwards(_, _, _)
scanBackwards(content, i, backtickCount) ==
  IF i < 0 THEN [backtickCount |-> backtickCount, codeBlockStart |-> -1]
  ELSE IF isFenceAt(content, i)
  THEN IF backtickCount + 1 = 1
       THEN scanBackwards(content, i - 1, 1)
       ELSE [backtickCount |-> backtickCount + 1, codeBlockStart |-> i]
  ELSE scanBackwards(content, i - 1, backtickCount)

findEnclosingCodeBlockStart(content, idx) ==
  LET r == scanBackwards(content, idx, 0)
  IN  IF r.backtickCount % 2 = 1 THEN r.codeBlockStart ELSE -1

\* content.indexOf(fence delimiter, pos)
indexOfFence(content, pos) ==
  IF \E i \in pos..Len(content) : isFenceAt(content, i)
  THEN CHOOSE i \in pos..Len(content) :
         /\ isFenceAt(content, i)
         /\ \A j \in pos..(i - 1) : ~isFenceAt(content, j)
  ELSE -1

\* the while loop of isIndexInsideCodeBlock
RECURSIVE countFencesBefore(_, _, _, _)
countFencesBefore(content, idx, pos, n) ==
  IF pos < idx
  THEN LET next == indexOfFence(content, pos)
       IN  IF next = -1 \/ next >= idx THEN n
           ELSE countFencesBefore(content, idx, next + 3, n + 1)
  ELSE n

isIndexInsideCodeBlockNever(content, idx) == FALSE

isIndexInsideCodeBlock(content, idx) ==
  countFencesBefore(content, idx, 0, 0) % 2 = 1

\* a double line feed starts at position i
isDoubleNewlineAt(content, i) ==
  /\ i >= 0
  /\ i + 2 <= Len(content)
  /\ content[i + 1] = "nl"
  /\ content[i + 2] = "nl"

firstIndexOfDoubleNewline(content, fromIndex) ==
  IF \E i \in 0..fromIndex : isDoubleNewlineAt(content, i)
  THEN CHOOSE i \in 0..fromIndex :
         /\ isDoubleNewlineAt(content, i)
         /\ \A j \in 0..(i - 1) : ~isDoubleNewlineAt(content, j)
  ELSE -1

\* content.lastIndexOf('\n\n', fromIndex)
lastIndexOfDoubleNewline(content, fromIndex) ==
  IF \E i \in 0..fromIndex : isDoubleNewlineAt(content, i)
  THEN CHOOSE i \in 0..fromIndex :
         /\ isDoubleNewlineAt(content, i)
         /\ \A j \in (i + 1)..fromIndex : ~isDoubleNewlineAt(content, j)
  ELSE -1

\* the while loop of findLastSafeSplitPoint
RECURSIVE searchSplitPoint(_, _)
searchSplitPoint(content, searchStartIndex) ==
  IF searchStartIndex < 0 THEN Len(content)
  ELSE LET dnlIndex == lastIndexOfDoubleNewline(content, searchStartIndex)
           potentialSplitPoint == dnlIndex + 2
       IN  IF dnlIndex = -1 THEN Len(content)
           ELSE IF ~isIndexInsideCodeBlock(content, potentialSplitPoint)
           THEN potentialSplitPoint
           ELSE searchSplitPoint(content, dnlIndex - 1)

findLastSafeSplitPoint(content) ==
  IF Len(content) = 0 THEN 0
  ELSE LET enclosingBlockStart ==
             findEnclosingCodeBlockStart(content, Len(content))
       IN  IF enclosingBlockStart # -1 THEN enclosingBlockStart
           ELSE searchSplitPoint(content, Len(content) - 1)

\* text.split('\n'): the lines of a text
RECURSIVE splitLines(_, _)
splitLines(text, line) ==
  IF text = <<>> THEN <<line>>
  ELSE IF text[1] = "nl" THEN <<line>> \o splitLines(Tail(text), <<>>)
  ELSE splitLines(Tail(text), Append(line, text[1]))

\* line.trim().startsWith of the fence delimiter
startsWithFence(line) ==
  Len(line) >= 3 /\ SubSeq(line, 1, 3) = <<"bt", "bt", "bt">>

\* Math.ceil(a / b) for positive b
ceilDiv(a, b) == (a + b - 1) \div b

\* the loop of estimateLineCount over the lines from position i
RECURSIVE countLines(_, _, _, _)
countLines(lines, i, inCodeBlock, terminalWidth) ==
  IF i > Len(lines) THEN 0
  ELSE IF startsWithFence(lines[i])
  THEN 1 + countLines(lines, i + 1, ~inCodeBlock, terminalWidth)
  ELSE IF inCodeBlock \/ Len(lines[i]) = 0
  THEN 1 + countLines(lines, i + 1, inCodeBlock, terminalWidth)
  ELSE LET effectiveWidth == Max(terminalWidth - 4, 40)
       IN  ceilDiv(Len(lines[i]), effectiveWidth)
             + countLines(lines, i + 1, inCodeBlock, terminalWidth)

estimateLineCount(text, terminalWidth) ==
  IF Len(text) = 0 THEN 0
  ELSE countLines(splitLines(text, <<>>), 1, FALSE, terminalWidth)

\* lines available for content
availableLinesOf(terminalHeight, reservedLines) ==
  Max(terminalHeight - reservedLines, 10)

shouldSplitMessage(text, terminalHeight, terminalWidth, reservedLines) ==
  LET availableLines == availableLinesOf(terminalHeight, reservedLines)
      estimatedLines == estimateLineCount(text, terminalWidth)
      point == findLastSafeSplitPoint(text)
  IN  IF Len(text) = 0 THEN FALSE
      ELSE IF estimatedLines < availableLines THEN FALSE
      ELSE point < Len(text) /\ point > 0

\* one more character is streamed; the split point and the decision to
\* split are computed anew (terminal width and reserved lines: defaults)
StreamChar(c) ==
  /\ Len(streamText) < MaxTextLen
  /\ streamText' = Append(streamText, c)
  /\ splitPoint' = findLastSafeSplitPoint(Append(streamText, c))
  /\ splitTaken' = [terminalHeight \in TerminalHeights |->
                      shouldSplitMessage(Append(streamText, c),
                                         terminalHeight, 80, 8)]

Split(A) ==
  A /\ UNCHANGED <<storeVars, procVars, dsVars, chatVars, sessionVars,
                 promptVars,
                       normVars, startVars, turnVars, toolVars>>

SplitNext == \E c \in Chars : Split(StreamChar(c))

InitText ==
  /\ InitStore(0)
  /\ InitProc
  /\ InitDs
  /\ InitChat
  /\ InitSplit
  /\ InitSession
  /\ InitPrompt
  /\ InitNorm
  /\ InitStart
  /\ InitTurn
  /\ InitTool

SpecSplit == InitText /\ [][SplitNext]_vars

(***************************************************************************)
(* Properties of the safe split point                                       *)
(***************************************************************************)
\* the fence delimiters of a text: non-overlapping runs of three backticks,
\* counted from the start (positions from 0, in ascending order)
RECURSIVE FencesFrom(_, _)
FencesFrom(text, p) ==
  IF p + 3 > Len(text) THEN <<>>
  ELSE IF SubSeq(text, p + 1, p + 3) = <<"bt", "bt", "bt">>
  THEN <<p>> \o FencesFrom(text, p + 3)
  ELSE FencesFrom(text, p + 1)

Fences == FencesFrom(streamText, 0)

\* the end of the text is inside an open fence
EndsInsideFence == Len(Fences) % 2 = 1

\* position p lies strictly between the k-th fence-open delimiter and its
\* fence-close delimiter
StrictlyInsideFence(p, k) ==
  /\ Fences[2 * k - 1] < p
  /\ p < Fences[2 * k] + 3

\* C12: for every text with an even number of fence delimiters, the split
\* point computed by findLastSafeSplitPoint is never strictly between a
\* fence-open delimiter and its matching fence-close delimiter.
C12_SplitNeverInsideFence ==
  ~EndsInsideFence =>
    \A k \in 1..(Len(Fences) \div 2) : ~StrictlyInsideFence(splitPoint, k)

\* a text whose only double line feed is enclosed by a closed fence: the
\* candidate inside the fence was passed over
C12_Witness ==
  /\ streamText = <<"bt", "bt", "bt", "nl", "nl", "bt", "bt", "bt">>
  /\ splitPoint = 8

\* C13: for every text whose end lies inside an open fence (an odd number
\* of fence delimiters), findLastSafeSplitPoint returns the position at which
\* that open fence starts; never a position inside the open fence and never
\* the full length.
C13_SplitAtOpenFence ==
  EndsInsideFence => splitPoint = Fences[Len(Fences)]

\* the positions just after a double line feed that is not inside a fence
SafePoints ==
  {d + 2 : d \in {e \in 0..(Len(streamText) - 2) :
                    /\ streamText[e + 1] = "nl"
                    /\ streamText[e + 2] = "nl"
                    /\ \A k \in 1..(Len(Fences) \div 2) :
                         ~(Fences[2 * k - 1] < e /\ e < Fences[2 * k])}}

LastSafePoint == CHOOSE p \in SafePoints : \A q \in SafePoints : q <= p

\* C14: for every text whose end is not inside a fence,
\* findLastSafeSplitPoint returns the position just after the last double
\* line feed that is not inside any fence, and returns the full text length
\* if and only if no such double line feed exists.
C14_LastSafeDoubleNewline ==
  ~EndsInsideFence =>
    /\ SafePoints # {} => splitPoint = LastSafePoint
    /\ (splitPoint = Len(streamText)) <=> (SafePoints = {})

\* C14 as amended: for every text whose end is not inside a fence,
\* findLastSafeSplitPoint returns the position just after the last double
\* line feed that is not inside any fence, and the full text length when no
\* such double line feed exists (the two coincide when the text ends with
\* such a double line feed).
C14_LastSafeDoubleNewlineOrLength ==
  ~EndsInsideFence =>
    splitPoint = IF SafePoints = {} THEN Len(streamText) ELSE LastSafePoint

\* a double line feed before a closed fence that encloses a later one: the
\* later one is passed over, the earlier one is returned
C14_Witness ==
  /\ streamText = <<"nl", "nl", "bt", "bt", "bt", "nl", "nl", "bt", "bt", "bt">>
  /\ splitPoint = 2

(***************************************************************************)
(* SessionManager: the operations on the index and on the session files     *)
(***************************************************************************)
\* the names a user gives to sessions
SessionNames == {DEFAULT_SESSION, "work", "draft"}

\* sessionExists: sessionName in this.index.sessions
sessionExists(ix, sessionName) == sessionName \in DOMAIN ix.sessions

\* delete obj[k], fs.unlinkSync(path of k)
without(f, k) == [n \in DOMAIN f \ {k} |-> f[n]]

\* obj[k] = v, fs.writeFileSync(path of k, v)
with(f, k, v) == [n \in DOMAIN f \cup {k} |-> IF n = k THEN v ELSE f[n]]

\* the outcome of an operation that returns false and changes nothing
refused(ix, fs) == [ok |-> FALSE, index |-> ix, files |-> fs]

\* loadSession: null (found = FALSE) when the file is missing; otherwise the
\* data of the file, and lastAccessed of an indexed session is set
loadSession(ix, fs, sessionName, t) ==
  IF sessionName \notin DOMAIN fs
  THEN [found |-> FALSE, context |-> defaultContext(<<>>), index |-> ix]
  ELSE [found |-> TRUE, context |-> fs[sessionName].context,
        index |-> IF sessionExists(ix, sessionName)
                  THEN [ix EXCEPT !.sessions[sessionName].lastAccessed = t]
                  ELSE ix]

\* SessionManager.switchSession
switchSession(ix, sessionName) ==
  IF ~sessionExists(ix, sessionName)
  THEN [ok |-> FALSE, index |-> ix]
  ELSE [ok |-> TRUE, index |-> [ix EXCEPT !.currentSession = sessionName]]

\* SessionManager.createSession
createSession(ix, fs, sessionName, currentProvider, t) ==
  IF sessionExists(ix, sessionName)
  THEN refused(ix, fs)
  ELSE LET meta == [name |-> sessionName, created |-> t, lastAccessed |-> t,
                    messageCount |-> 0]
           r == saveSession([ix EXCEPT !.sessions = with(@, sessionName, meta)],
                            fs, sessionName,
                            [defaultContext(<<>>) EXCEPT
                               !.currentProvider = currentProvider], t)
       IN  [ok |-> TRUE, index |-> r.index, files |-> r.files]

\* deleteSession without the test for the current session
deleteSessionAny(ix, fs, sessionName, unlinkThrows) ==
  IF ~sessionExists(ix, sessionName) THEN refused(ix, fs)
  ELSE IF unlinkThrows THEN refused(ix, fs)
  ELSE [ok |-> TRUE,
        index |-> [ix EXCEPT !.sessions = without(@, sessionName)],
        files |-> without(fs, sessionName)]

\* SessionManager.deleteSession; unlinkThrows: fs.unlinkSync throws and the
\* catch returns false
deleteSession(ix, fs, sessionName, unlinkThrows) ==
  IF sessionName = ix.currentSession THEN refused(ix, fs)
  ELSE IF ~sessionExists(ix, sessionName) THEN refused(ix, fs)
  ELSE IF unlinkThrows THEN refused(ix, fs)
  ELSE [ok |-> TRUE,
        index |-> [ix EXCEPT !.sessions = without(@, sessionName)],
        files |-> without(fs, sessionName)]

\* a renameSession that leaves the current session name as it is
renameSessionKeepingCurrent(ix, fs, oldName, newName, renameThrows) ==
  IF ~sessionExists(ix, oldName) \/ sessionExists(ix, newName)
  THEN refused(ix, fs)
  ELSE IF renameThrows \/ oldName \notin DOMAIN fs THEN refused(ix, fs)
  ELSE [ok |-> TRUE,
        index |-> [ix EXCEPT !.sessions =
                     without(with(ix.sessions, newName,
                                  [ix.sessions[oldName] EXCEPT
                                     !.name = newName]),
                             oldName)],
        files |-> without(with(fs, newName, fs[oldName]), oldName)]

\* SessionManager.renameSession; fs.renameSync throws when renameThrows or
\* when the old file is missing, and the catch returns false.  The moved
\* file is not rewritten: its embedded metadata keeps the old name.
renameSession(ix, fs, oldName, newName, renameThrows) ==
  IF ~sessionExists(ix, oldName) \/ sessionExists(ix, newName)
  THEN refused(ix, fs)
  ELSE IF renameThrows \/ oldName \notin DOMAIN fs THEN refused(ix, fs)
  ELSE [ok |-> TRUE,
        index |-> [currentSession |->
                     IF ix.currentSession = oldName THEN newName
                     ELSE ix.currentSession,
                   sessions |->
                     without(with(ix.sessions, newName,
                                  [ix.sessions[oldName] EXCEPT
                                     !.name = newName]),
                             oldName)],
        files |-> without(with(fs, newName, fs[oldName]), oldName)]

\* ContextManager.loadContext
loadContext(ix, fs, t) ==
  LET currentSessionName == ix.currentSession
      first == loadSession(ix, fs, currentSessionName, t)
      made == createSession(ix, fs, currentSessionName, "claude", t)
      second == loadSession(made.index, made.files, currentSessionName, t)
  IN  IF first.found
      THEN [context |-> first.context, index |-> first.index, files |-> fs]
      ELSE [context |-> second.context, index |-> second.index,
            files |-> made.files]

(***************************************************************************)
(* ContextManager: session operations, setters and clear                    *)
(***************************************************************************)
\* the store variables no session operation assigns
sessionFrame == <<lastSaveTime, pendingSave, timers, autoCompactEnabled,
                  now, msgSeq, cmp, ret>>

Returned(op, name, ok) ==
  /\ sessionRet' = [op |-> op, name |-> name, to |-> "", ok |-> ok,
                    n |-> calls + 1, list |-> <<>>]
  /\ calls' = calls + 1

\* ContextManager.createSession
CreateSession(sessionName) ==
  LET r == createSession(index, files, sessionName, context.currentProvider,
                         now)
  IN  /\ index' = r.index
      /\ files' = r.files
      /\ Returned("createSession", sessionName, r.ok)
      /\ UNCHANGED <<context, sessionFrame>>

\* ContextManager.switchSession: save(), SessionManager.switchSession,
\* loadContext()
SwitchSession(sessionName) ==
  LET saved == saveSession(index, files, index.currentSession, context, now)
      switched == switchSession(saved.index, sessionName)
      loaded == loadContext(switched.index, saved.files, now)
  IN  /\ IF switched.ok
         THEN /\ context' = loaded.context
              /\ index' = loaded.index
              /\ files' = loaded.files
         ELSE /\ context' = context
              /\ index' = saved.index
              /\ files' = saved.files
      /\ Returned("switchSession", sessionName, switched.ok)
      /\ UNCHANGED sessionFrame

\* ContextManager.deleteSession
DeleteSession(sessionName, unlinkThrows) ==
  LET r == deleteSession(index, files, sessionName, unlinkThrows)
  IN  /\ index' = r.index
      /\ files' = r.files
      /\ Returned("deleteSession", sessionName, r.ok)
      /\ UNCHANGED <<context, sessionFrame>>

\* ContextManager.renameSession
RenameSession(oldName, newName, renameThrows) ==
  LET r == renameSession(index, files, oldName, newName, renameThrows)
  IN  /\ index' = r.index
      /\ files' = r.files
      /\ sessionRet' = [op |-> "renameSession", name |-> oldName,
                        to |-> newName, ok |-> r.ok, n |-> calls + 1,
                        list |-> <<>>]
      /\ calls' = calls + 1
      /\ UNCHANGED <<context, sessionFrame>>

\* the changes setCurrentProvider, setSwitchMode and clear make before save()
Mutations ==
  { [op |-> "setCurrentProvider", to |-> "gemini"],
    [op |-> "setSwitchMode", to |-> "rollover"],
    [op |-> "clear", to |-> ""] }

\* ContextManager.setCurrentProvider, setSwitchMode, clear: the change, then
\* save()
Mutate(m) ==
  LET ctx == CASE m.op = "setCurrentProvider" ->
                    [context EXCEPT !.currentProvider = m.to]
               [] m.op = "setSwitchMode" ->
                    [context EXCEPT !.switchMode = m.to]
               [] OTHER -> [context EXCEPT !.messages = <<>>]
  IN  /\ context' = ctx
      /\ save(ctx)
      /\ Returned(m.op, index.currentSession, TRUE)
      /\ UNCHANGED sessionFrame

\* the orders in which Object.values can enumerate the entries of the index:
\* the insertion order of the keys, which the index does not record
valueOrders(ix) ==
  { seq \in [1..Cardinality(DOMAIN ix.sessions) -> DOMAIN ix.sessions] :
      \A i, j \in DOMAIN seq : i # j => seq[i] # seq[j] }

\* the comparator of listSessions with the ascending difference
compareAscending(a, b) == a.lastAccessed - b.lastAccessed

\* the comparator of listSessions: (a, b) => b.lastAccessed - a.lastAccessed
compareSessions(a, b) == b.lastAccessed - a.lastAccessed

\* Array.prototype.sort is stable: an element goes after every element that
\* does not compare greater than it
RECURSIVE insertSorted(_, _)
insertSorted(sorted, a) ==
  IF sorted = <<>> THEN <<a>>
  ELSE IF compareSessions(Head(sorted), a) > 0
       THEN <<a>> \o sorted
       ELSE <<Head(sorted)>> \o insertSorted(Tail(sorted), a)

RECURSIVE sortSessions(_, _)
sortSessions(values, sorted) ==
  IF values = <<>> THEN sorted
  ELSE sortSessions(Tail(values), insertSorted(sorted, Head(values)))

\* SessionManager.listSessions over the entries enumerated in the order seq
listSessions(ix, seq) ==
  sortSessions([i \in DOMAIN seq |-> ix.sessions[seq[i]]], <<>>)

\* ContextManager.listSessions
ListSessions ==
  /\ \E seq \in valueOrders(index) :
       sessionRet' = [op |-> "listSessions", name |-> "", to |-> "",
                      ok |-> TRUE, n |-> calls + 1,
                      list |-> listSessions(index, seq)]
  /\ calls' = calls + 1
  /\ UNCHANGED <<context, index, files, sessionFrame>>

\* a step of the store that may be a session operation
Session(A) ==
  A /\ UNCHANGED <<procVars, dsVars, chatVars, splitVars, promptVars,
                       normVars, startVars, turnVars, toolVars>>

\* The session operations are synchronous: the chat calls them from a
\* command or a dialog whenever the event loop is free, also while a
\* compact() is awaiting its summary.
SessionNext ==
  \/ Store(Tick)
  \/ \E d \in timers : Store(TimerFire(d))
  \/ /\ calls < MaxCalls
     /\ \E a \in Authors : Store(AddMessage(a[1], a[2]))
  \/ /\ calls < MaxCalls
     /\ Store(UpdateLastAssistantMessage("claude"))
  \/ /\ calls < MaxCalls
     /\ Store(Compact(MaxKeep))
  \/ /\ calls < MaxCalls
     /\ \E sessionName \in SessionNames :
          Session(CreateSession(sessionName))
  \/ /\ calls < MaxCalls
     /\ \E sessionName \in SessionNames :
          Session(SwitchSession(sessionName))
  \/ /\ calls < MaxCalls
     /\ \E sessionName \in SessionNames, unlinkThrows \in BOOLEAN :
          Session(DeleteSession(sessionName, unlinkThrows))
  \/ /\ calls < MaxCalls
     /\ \E oldName \in SessionNames, newName \in SessionNames,
           renameThrows \in BOOLEAN :
          Session(RenameSession(oldName, newName, renameThrows))
  \/ /\ calls < MaxCalls
     /\ \E m \in Mutations : Session(Mutate(m))
  \/ /\ calls < MaxCalls
     /\ Session(ListSessions)
  \/ Store(CompactSucceed({"claude"}))
  \/ Store(CompactFail({}, "failed"))

InitManager ==
  /\ \E len \in {0, ShortLen} : InitStore(len)
  /\ InitProc
  /\ InitDs
  /\ InitChat
  /\ InitSplit
  /\ InitSession
  /\ InitPrompt
  /\ InitNorm
  /\ InitStart
  /\ InitTurn
  /\ InitTool

SpecSession == InitManager /\ [][SessionNext]_vars

(***************************************************************************)
(* Properties of the session operations                                     *)
(***************************************************************************)
\* the session recorded as current has an entry in the index
CurrentSessionIndexed == sessionExists(index, index.currentSession)

\* the step is a deleteSession call whose argument is the current session
DeletesCurrent ==
  /\ sessionRet'.n # sessionRet.n
  /\ sessionRet'.op = "deleteSession"
  /\ sessionRet'.name = index.currentSession

\* C15: in every reachable state the one session name recorded as current
\* has an entry in the index, whatever create, switch, delete, rename, save
\* and load operations succeeded or failed before; and deleteSession called
\* on the current session returns false and removes neither an index entry
\* nor a file.
C15_CurrentSessionExists ==
  /\ [](/\ index.currentSession \in SessionNames
        /\ CurrentSessionIndexed)
  /\ [][DeletesCurrent =>
          /\ ~sessionRet'.ok
          /\ index' = index
          /\ files' = files]_vars

\* deleteSession was refused for the current session, which is not the
\* session the store started with, while another session exists
C15_Witness ==
  /\ sessionRet.op = "deleteSession"
  /\ sessionRet.name = index.currentSession
  /\ ~sessionRet.ok
  /\ index.currentSession # DEFAULT_SESSION
  /\ Cardinality(DOMAIN index.sessions) >= 2

\* C16: after every successful save of a session (by addMessage, a throttled
\* update, compaction, clear, switch or rename) the messageCount recorded
\* for the session in the index and the one in its session file both equal
\* the number of messages of the context persisted in that file.
C16_MessageCountMatches ==
  \A n \in DOMAIN files :
    /\ files[n].metadata.messageCount = Len(files[n].context.messages)
    /\ sessionExists(index, n) =>
         index.sessions[n].messageCount = Len(files[n].context.messages)

\* the current session was renamed after addMessage saved a message in
\* it: its file was moved, not rewritten, and still carries the old name
C16_Witness ==
  /\ sessionRet.op = "renameSession"
  /\ sessionRet.ok
  /\ msgSeq > 1
  /\ index.currentSession \in DOMAIN files
  /\ files[index.currentSession].metadata.name # index.currentSession
  /\ Len(files[index.currentSession].context.messages) > 0
  /\ index.sessions[index.currentSession].messageCount
       = Len(context.messages)

\* the step is a switchSession call
Switches ==
  /\ sessionRet'.n # sessionRet.n
  /\ sessionRet'.op = "switchSession"

\* switchSession of an absent name returns false and keeps the current
\* session name and the in-memory context
SwitchRefused ==
  (Switches /\ ~sessionExists(index, sessionRet'.name)) =>
    /\ ~sessionRet'.ok
    /\ index'.currentSession = index.currentSession
    /\ context' = context

\* switchSession of an existing name has written the whole in-memory
\* context under the outgoing name, made the name current and loaded the
\* context of its file
SwitchDone ==
  (Switches /\ sessionExists(index, sessionRet'.name)) =>
    /\ sessionRet'.ok
    /\ index'.currentSession = sessionRet'.name
    /\ sessionRet'.name # index.currentSession =>
         files'[index.currentSession].context = context
    /\ context' = files'[sessionRet'.name].context

\* the messages of a history that are not summaries: each was typed,
\* produced or stored once, in one session
OwnMessages(ms) == {ms[i] : i \in {j \in DOMAIN ms : ms[j].content.kind # "summary"}}

\* no session file holds a message of another session's file
NoForeignContent ==
  \A a, b \in DOMAIN files :
    a # b => OwnMessages(files[a].context.messages)
               \cap OwnMessages(files[b].context.messages) = {}

\* C17: switchSession(name) returns false and leaves the current session
\* name and the in-memory context unchanged when name is absent; when name
\* exists it first persists the outgoing session's whole in-memory state
\* (a throttled update that was still waiting included) under the outgoing
\* name, then makes name current and loads its context; and no later write
\* places content of the outgoing session in the file of the new session.
C17_SwitchKeepsSessionsApart ==
  /\ [][SwitchRefused /\ SwitchDone]_vars
  /\ []NoForeignContent

\* the step writes the file of the session that is and stays current
WritesCurrentFile ==
  /\ index'.currentSession = index.currentSession
  /\ index.currentSession \in DOMAIN files
  /\ files'[index.currentSession] # files[index.currentSession]

\* Date.now() of the last write of the current session's file: saveSession
\* stores it in the file as metadata.lastAccessed
lastWriteTime == files[index.currentSession].metadata.lastAccessed

\* C19: any two consecutive physical writes of the current session's file
\* are at least saveThrottleMs (500 ms) apart, whichever operation asked
\* for them (addMessage, updateLastAssistantMessage, the setters,
\* compaction, clear).
C19_WritesThrottled ==
  [][WritesCurrentFile => now - lastWriteTime >= saveThrottleMs]_vars

(***************************************************************************)
(* Properties of a nonzero exit                                             *)
(***************************************************************************)
\* the spawned child ended with a nonzero status, its close event has been
\* handled, and the cancellation token never fired
ExitedNonzero ==
  /\ result.settled
  /\ child.pid
  /\ child.state = "closed"
  /\ child.code # "0"
  /\ ~signal.aborted

\* C20: for every CLI-backed adapter, copilot included, when the child
\* process exits with a nonzero status without cancellation the result is
\* a failure whose error is the captured error-channel content and whose
\* tokenLimitReached is the adapter's quota detection applied to the
\* captured standard output followed by the captured error output.
C20_NonzeroExitResult ==
  ExitedNonzero =>
    /\ ~result.success
    /\ result.error = stderr
    /\ result.tokenLimitReached = Bool(detectTokenLimit(stdout \o stderr))

(***************************************************************************)
(* ChatApp: a prompt from its submission to the result of its execution     *)
(***************************************************************************)
\* pc: "compacting" handleUserInput awaits addMessage, which awaits the
\*     auto-compaction; "executing" executeWithProvider awaits
\*     providerInstance.execute; "done" execute has returned its result.
\* aborted: the AbortController of the execution was aborted
Prompt(pc, aborted) == [pc |-> pc, aborted |-> aborted]

\* the prompts whose provider execution is pending
Executing == {k \in DOMAIN prompts : prompts[k].pc = "executing"}

\* the prompts that were submitted and have not got their result
InFlight == {k \in DOMAIN prompts : prompts[k].pc # "done"}

\* Return in the input area: handleKeypress tests isActive (the prop is
\* isActive && !isLoading), onSubmit runs handleUserInput.  addMessage
\* either returns at once, and executeWithProvider sets isLoading and calls
\* execute before another key is handled, or it awaits the auto-compaction.
Submit(autoCompacts) ==
  /\ ~isLoading
  /\ Len(prompts) < MaxPrompts
  /\ IF autoCompacts
     THEN /\ prompts' = Append(prompts, Prompt("compacting", FALSE))
          /\ isLoading' = isLoading
     ELSE /\ prompts' = Append(prompts, Prompt("executing", FALSE))
          /\ isLoading' = TRUE

\* the auto-compaction of prompt k ended (summarized or failed): addMessage
\* returns, executeWithProvider sets isLoading and calls execute
CompactionDone(k) ==
  /\ k \in DOMAIN prompts
  /\ prompts[k].pc = "compacting"
  /\ prompts' = [prompts EXCEPT ![k].pc = "executing"]
  /\ isLoading' = TRUE

\* Escape, or Ctrl+C twice, while loading: abortController.abort() and
\* setIsLoading(false); the executions that hold the signal are told to
\* stop and return later
Cancel ==
  /\ isLoading
  /\ prompts' = [k \in DOMAIN prompts |->
                   IF prompts[k].pc = "executing"
                   THEN [prompts[k] EXCEPT !.aborted = TRUE]
                   ELSE prompts[k]]
  /\ isLoading' = FALSE

\* providerInstance.execute of prompt k resolves; setIsLoading(false)
ExecuteReturns(k) ==
  /\ k \in DOMAIN prompts
  /\ prompts[k].pc = "executing"
  /\ prompts' = [prompts EXCEPT ![k].pc = "done"]
  /\ isLoading' = FALSE

\* a step of the chat around a prompt
Ui(A) == A /\ UNCHANGED <<storeVars, procVars, dsVars, chatVars, splitVars,
                          sessionVars, normVars, startVars, turnVars, toolVars>>

PromptNext ==
  \/ \E autoCompacts \in BOOLEAN : Ui(Submit(autoCompacts))
  \/ \E k \in 1..MaxPrompts : Ui(CompactionDone(k))
  \/ Ui(Cancel)
  \/ \E k \in 1..MaxPrompts : Ui(ExecuteReturns(k))

InitPrompts ==
  /\ InitStore(0)
  /\ InitProc
  /\ InitDs
  /\ InitChat
  /\ InitSplit
  /\ InitSession
  /\ InitPrompt
  /\ InitNorm
  /\ InitStart
  /\ InitTurn
  /\ InitTool

SpecPrompt == InitPrompts /\ [][PromptNext]_vars

\* the step starts the provider execution of prompt k
StartsExecution(k) ==
  /\ k \in DOMAIN prompts'
  /\ prompts'[k].pc = "executing"
  /\ k \in DOMAIN prompts => prompts[k].pc = "compacting"

\* C18: at most one backend execution is in flight at any time: a prompt
\* never starts its provider execution while an earlier prompt is between
\* its submission and its result, the time in which that earlier prompt
\* awaits the auto-compaction inside addMessage included.
C18_OneExecutionInFlight ==
  /\ [](Cardinality(Executing) <= 1)
  /\ [][\A k \in 1..MaxPrompts :
          StartsExecution(k) => InFlight \ {k} = {}]_vars

(***************************************************************************)
(* Properties of a repeated cancellation                                    *)
(***************************************************************************)
\* the step fires a cancellation token that has fired before
FiresAgain ==
  /\ signal.fires >= 1
  /\ signal'.fires > signal.fires

Creates ==
  /\ sessionRet'.n # sessionRet.n
  /\ sessionRet'.op = "createSession"

\* createSession of a name that exists returns false and changes neither
\* the index nor a file
CreateRefused ==
  (Creates /\ sessionExists(index, sessionRet'.name)) =>
    /\ ~sessionRet'.ok
    /\ index' = index
    /\ files' = files

\* createSession of a new name returns true and adds that one session,
\* with no messages, to the index and to the files; the other sessions and
\* the current session stay as they are
CreateAdds ==
  (Creates /\ ~sessionExists(index, sessionRet'.name)) =>
    /\ sessionRet'.ok
    /\ DOMAIN index'.sessions = DOMAIN index.sessions \cup {sessionRet'.name}
    /\ \A n \in DOMAIN index.sessions : index'.sessions[n] = index.sessions[n]
    /\ \A n \in DOMAIN files \ {sessionRet'.name} :
         n \in DOMAIN files' /\ files'[n] = files[n]
    /\ index'.sessions[sessionRet'.name].messageCount = 0
    /\ files'[sessionRet'.name].context.messages = <<>>
    /\ index'.currentSession = index.currentSession
    /\ context' = context

\* the context of the created session has the default provider and mode
CreateDefaults ==
  (Creates /\ ~sessionExists(index, sessionRet'.name)) =>
    files'[sessionRet'.name].context = defaultContext(<<>>)

\* C22: createSession(name) returns false and changes neither the index
\* nor any session file when a session called name exists; otherwise it
\* returns true, adds exactly one session called name with an empty
\* message list and the default provider, mode and models, and does not
\* change which session is current.
C22_CreateSession ==
  [][CreateRefused /\ CreateAdds /\ CreateDefaults]_vars

\* the step is a renameSession call
Renames ==
  /\ sessionRet'.n # sessionRet.n
  /\ sessionRet'.op = "renameSession"

\* renameSession can do its work: the old name exists, the new one is free
Renamable ==
  /\ sessionExists(index, sessionRet'.name)
  /\ ~sessionExists(index, sessionRet'.to)

\* a renameSession that returns false has changed nothing, and it returns
\* false when the old name is absent or the new name is taken
RenameRefused ==
  Renames =>
    /\ ~Renamable => ~sessionRet'.ok
    /\ ~sessionRet'.ok => (index' = index /\ files' = files
                            /\ context' = context)

\* a renameSession that returns true: the session is found under the new
\* name only, with the messages and the creation time it had, and the
\* current session follows the name
RenameMoves ==
  (Renames /\ sessionRet'.ok) =>
    LET oldName == sessionRet'.name
        newName == sessionRet'.to
    IN  /\ Renamable
        /\ ~sessionExists(index', oldName)
        /\ oldName \notin DOMAIN files'
        /\ sessionExists(index', newName)
        /\ files'[newName].context = files[oldName].context
        /\ index'.sessions[newName].created = index.sessions[oldName].created
        /\ index'.sessions[newName].messageCount
             = index.sessions[oldName].messageCount
        /\ index'.currentSession =
             IF index.currentSession = oldName THEN newName
             ELSE index.currentSession
        /\ context' = context

\* a save of the in-memory context writes the file of the session that is
\* current, and no other file
SavesUnderCurrent ==
  (sessionRet'.n = sessionRet.n /\ files' # files) =>
    /\ index'.currentSession = index.currentSession
    /\ files'[index.currentSession].context = context'
    /\ \A n \in DOMAIN files' \ {index.currentSession} :
         n \in DOMAIN files /\ files'[n] = files[n]

KeepsMessages(before, after) ==
  /\ Len(after) >= Len(before)
  /\ \A i \in 1..(Len(before) - 1) : after[i] = before[i]
  /\ Len(before) > 0 =>
       /\ after[Len(before)].role = before[Len(before)].role
       /\ after[Len(before)].provider = before[Len(before)].provider

\* the history after the step is one summary message followed by a suffix
\* of the history before it, and a prefix that is not empty is gone
ReplacesPrefix(before, after) ==
  \E k \in 1..Len(before) :
    /\ Len(after) = Len(before) - k + 1
    /\ after[1].content.kind = "summary"
    /\ \A i \in 2..Len(after) : after[i] = before[k + i - 1]

\* the step is the end of a compaction that summarized
Compacts == cmp.pc = "awaiting" /\ cmp'.pc = "idle" /\ ret'.compacted

\* C24: messages are removed from a session's history only by compaction,
\* and compaction replaces a contiguous prefix by exactly one summary
\* message and keeps the retained suffix in its order; no other operation
\* of the store shortens the history or removes or reorders a message that
\* was appended.
C24_OnlyCompactionRemoves ==
  [][index'.currentSession = index.currentSession =>
       IF Compacts
       THEN ReplacesPrefix(context.messages, context'.messages)
       ELSE KeepsMessages(context.messages, context'.messages)]_vars

\* the step changes nothing of the last message but its content
UpdatesLastContent(before, after) ==
  /\ Len(after) = Len(before)
  /\ \A i \in 1..(Len(before) - 1) : after[i] = before[i]
  /\ after[Len(before)].role = before[Len(before)].role
  /\ after[Len(before)].provider = before[Len(before)].provider

\* every message of the history before the step is in its place, unchanged
KeepsContents(before, after) ==
  /\ Len(after) >= Len(before)
  /\ \A i \in 1..Len(before) : after[i] = before[i]

\* the step is a call of updateLastAssistantMessage
Updates == \E provider \in TagProviders : UpdateLastAssistantMessage(provider)

\* the step is the end of a compaction
CompactionEnds == cmp.pc = "awaiting" /\ cmp'.pc = "idle"

\* the last message is an assistant message of the provider
LastIsAssistantOf(provider) ==
  /\ Len(context.messages) > 0
  /\ context.messages[Len(context.messages)].role = "assistant"
  /\ context.messages[Len(context.messages)].provider = provider

\* the last message is an assistant message
LastIsAssistant ==
  /\ Len(context.messages) > 0
  /\ context.messages[Len(context.messages)].role = "assistant"

\* the call returns false and leaves history and files as they are
UpdateRefused ==
  /\ ~ret'.ok
  /\ context' = context
  /\ files' = files
  /\ index' = index

CalledInactive == ~isActive /\ uiEvents' = uiEvents + 1

\* C26: while the sink is inactive (before activate or after deactivate) a
\* call of writeText, showTool, completeTool or showInfo invokes no callback
\* and changes no observable state.
C26_InactiveSinkIgnores ==
  [][CalledInactive =>
       UNCHANGED <<accumulatedStreamItems, currentToolId, isActive, uiPc,
                   storeVars, procVars, dsVars, splitVars, sessionVars,
                   promptVars, normVars, startVars, turnVars, toolVars>>]_vars

\* calls were made before activate(): nothing was shown, no tool id was used
C26_Witness ==
  /\ uiPc = "idle"
  /\ ~isActive
  /\ uiEvents = MaxEvents
  /\ accumulatedStreamItems = <<>>
  /\ currentToolId = 0

(***************************************************************************)
(* Properties of the decision to split                                      *)
(***************************************************************************)
\* C27: a split of the streaming buffer is taken only when the estimated
\* rendered line count of the buffered text is strictly greater than the
\* available display height; when the estimate equals the available height
\* no split is taken.
C27_SplitOnlyAboveHeight ==
  \A terminalHeight \in TerminalHeights :
    splitTaken[terminalHeight] =>
      estimateLineCount(streamText, 80) > availableLinesOf(terminalHeight, 8)

(***************************************************************************)
(* The normalizers of the CLI backends: handleStreamChunk of                *)
(* ClaudeProvider, GeminiProvider, CopilotProvider and BaseProvider.        *)
(* The output of a backend is a sequence of characters.  An event line is   *)
(* an opening brace, the payload of the event and a closing brace;          *)
(* JSON.parse accepts a line exactly when all three are there.              *)
(***************************************************************************)
\* number of lines a backend writes during one execution
MaxLines == 2

\* the providers whose handleStreamChunk is modelled
Normalizers == {"claude", "gemini", "copilot", "base"}

\* what an event line carries: an assistant text, a tool use, a tool result
Payloads == {"text1", "text2", "tool_use", "tool_result"}

TextPayloads == {"text1", "text2"}

\* the lines a backend writes: event lines and a line of plain text
BackendLines == {<<"{", p, "}">> : p \in Payloads} \cup {<<"a">>}

\* the lines joined, each followed by its line feed
RECURSIVE joinLines(_)
joinLines(lines) ==
  IF lines = <<>> THEN <<>>
  ELSE lines[1] \o <<"nl">> \o joinLines(Tail(lines))

\* the outputs of one execution
BackendOutputs ==
  {joinLines(lines) :
     lines \in UNION {[1..n -> BackendLines] : n \in 1..MaxLines}}

\* JSON.parse(line) and the type of the event, "invalid" when it throws
parseEvent(line) ==
  IF Len(line) = 3 /\ line[1] = "{" /\ line[3] = "}" /\ line[2] \in Payloads
  THEN line[2]
  ELSE "invalid"

\* a call of a method of the writer
SinkCall(method, text) == [method |-> method, text |-> text]

\* the test before onFirstChunk(): the callback runs once per execution
noteFirstChunk(st) == [st EXCEPT !.first = @ \/ onFirstChunk]

\* ClaudeProvider.handleStreamChunk, the body of the loop for one line
claudeLine(st, line) ==
  IF line = <<>> THEN st
  ELSE IF \E i \in DOMAIN line : line[i] = "tool_result" THEN st
  ELSE LET type == parseEvent(line)
       IN  IF type \in TextPayloads
           THEN [noteFirstChunk(st) EXCEPT
                   !.calls = Append(@, SinkCall("writeText", <<type>>))]
           ELSE IF type = "tool_use"
           THEN [st EXCEPT !.calls = Append(@, SinkCall("showTool", <<>>))]
           ELSE st

\* GeminiProvider.handleStreamChunk, the body of the loop for one line
geminiLine(st, line) ==
  IF line = <<>> THEN st
  ELSE LET type == parseEvent(line)
       IN  IF type \in TextPayloads
           THEN IF ~st.first /\ onFirstChunk
                THEN [st EXCEPT !.first = TRUE]
                ELSE [st EXCEPT
                        !.calls = Append(@, SinkCall("writeText", <<type>>))]
           ELSE IF type = "tool_use"
           THEN [st EXCEPT !.calls = Append(@, SinkCall("showTool", <<>>))]
           ELSE IF type = "tool_result"
           THEN [st EXCEPT
                   !.calls = Append(@, SinkCall("completeTool", <<>>))]
           ELSE st

\* CopilotProvider.handleStreamChunk, the body of the loop for one line
copilotLine(st, line, isLastLine) ==
  LET type == parseEvent(line)
  IN  IF line # <<>> /\ type # "invalid"
      THEN IF type = "tool_use"
           THEN [st EXCEPT !.calls = Append(@, SinkCall("showTool", <<>>))]
           ELSE IF type = "tool_result"
           THEN [st EXCEPT
                   !.calls = Append(@, SinkCall("completeTool", <<>>))]
           ELSE st
      ELSE IF line = <<>> THEN st
      ELSE [noteFirstChunk(st) EXCEPT
              !.calls = Append(@, SinkCall("writeText",
                                 IF isLastLine THEN line
                                 ELSE Append(line, "nl")))]

\* the loop over chunk.split('\n') from line i
RECURSIVE normalizeLines(_, _, _, _)
normalizeLines(name, st, lines, i) ==
  IF i > Len(lines) THEN st
  ELSE normalizeLines(name,
                   CASE name = "claude" -> claudeLine(st, lines[i])
                     [] name = "gemini" -> geminiLine(st, lines[i])
                     [] name = "copilot" ->
                          copilotLine(st, lines[i], i = Len(lines)),
                   lines, i + 1)

\* BaseProvider.handleStreamChunk: the chunk is written as it is
baseChunk(st, chunk) ==
  LET st1 == IF \E i \in DOMAIN chunk : chunk[i] # "nl"
             THEN noteFirstChunk(st) ELSE st
  IN  [st1 EXCEPT !.calls = Append(@, SinkCall("writeText", chunk))]

\* handleStreamChunk of the provider called name
handleStreamChunk(name, st, chunk) ==
  IF name = "base" THEN baseChunk(st, chunk)
  ELSE normalizeLines(name, st, splitLines(chunk, <<>>), 1)

\* the 'data' handler of stdout: the next n characters arrive as one chunk
ChunkArrives(n) ==
  LET chunk == SubSeq(backendOutput, delivered + 1, delivered + n)
      st == handleStreamChunk(normalizer,
                              [calls |-> sinkCalls,
                               first |-> firstChunkReceived], chunk)
  IN  /\ delivered + n <= Len(backendOutput)
      /\ delivered' = delivered + n
      /\ aligned' = (aligned /\ chunk[n] = "nl")
      /\ sinkCalls' = st.calls
      /\ firstChunkReceived' = st.first
      /\ UNCHANGED <<normalizer, backendOutput, onFirstChunk>>

Norm(A) == A /\ UNCHANGED <<storeVars, procVars, dsVars, chatVars, splitVars,
                            sessionVars, promptVars, startVars, turnVars, toolVars>>

NormNext == \E n \in 1..(MaxLines * 4) : Norm(ChunkArrives(n))

\* execute(): firstChunkReceived is reset, the callback is kept, the child
\* is started and will write its output
InitNormalizer ==
  /\ InitStore(0)
  /\ InitProc
  /\ InitDs
  /\ InitChat
  /\ InitSplit
  /\ InitSession
  /\ InitPrompt
  /\ InitStart
  /\ InitTurn
  /\ InitTool
  /\ normalizer \in Normalizers
  /\ backendOutput \in BackendOutputs
  /\ onFirstChunk \in BOOLEAN
  /\ delivered = 0
  /\ aligned = TRUE
  /\ sinkCalls = <<>>
  /\ firstChunkReceived = FALSE

SpecNorm == InitNormalizer /\ [][NormNext]_vars

(***************************************************************************)
(* Properties of the normalizers                                            *)
(***************************************************************************)
\* the calls as the chat shows them: consecutive texts are one text
RECURSIVE mergeText(_)
mergeText(cs) ==
  IF Len(cs) < 2 THEN cs
  ELSE IF cs[1].method = "writeText" /\ cs[2].method = "writeText"
  THEN mergeText(<<SinkCall("writeText", cs[1].text \o cs[2].text)>>
                   \o SubSeq(cs, 3, Len(cs)))
  ELSE <<cs[1]>> \o mergeText(Tail(cs))

\* the calls the normalizer makes when the output arrives as one chunk
UncutCalls ==
  handleStreamChunk(normalizer, [calls |-> <<>>, first |-> FALSE],
                    backendOutput).calls

\* the whole output has been delivered
Delivered == delivered = Len(backendOutput)

\* C28: for each CLI backend normalizer the sink events emitted for a
\* backend output are the same for every way of cutting the output into
\* chunks: an event line split across two chunks is buffered until its
\* terminator arrives and processed once, never dropped and never emitted
\* as raw fragments.
C28_CutsDoNotMatter ==
  (Delivered /\ normalizer \in {"claude", "gemini", "copilot"}) =>
    mergeText(sinkCalls) = mergeText(UncutCalls)

\* the lines of the backend output (each of them ended by its line feed)
OutputLines ==
  LET lines == splitLines(backendOutput, <<>>)
  IN  SubSeq(lines, 1, Len(lines) - 1)

\* what a line of the backend output is for the sink of a provider: an
\* assistant text, the start of a tool, the end of a tool, or nothing
producedCall(name, line) ==
  LET type == parseEvent(line)
  IN  CASE name \in {"claude", "gemini"} /\ type \in TextPayloads ->
             <<SinkCall("writeText", <<type>>)>>
        [] name \in {"claude", "gemini", "copilot"} /\ type = "tool_use" ->
             <<SinkCall("showTool", <<>>)>>
        [] name \in {"gemini", "copilot"} /\ type = "tool_result" ->
             <<SinkCall("completeTool", <<>>)>>
        [] name \in {"copilot", "base"} /\ type = "invalid" ->
             <<SinkCall("writeText", Append(line, "nl"))>>
        [] name = "base" /\ type # "invalid" ->
             <<SinkCall("writeText", Append(line, "nl"))>>
        [] OTHER -> <<>>

\* the calls the output asks for, in the order of its lines
RECURSIVE producedCalls(_, _, _)
producedCalls(name, lines, i) ==
  IF i > Len(lines) THEN <<>>
  ELSE producedCall(name, lines[i]) \o producedCalls(name, lines, i + 1)

\* C29: the stream events of one execution reach the sink in the order in
\* which the backend produced the output, and every assistant text fragment
\* is given to writeText exactly once; the first text fragment is not
\* dropped when a first-chunk callback is registered.  (Stated for chunks
\* that end at the end of a line.)
C29_OrderedExactlyOnce ==
  (Delivered /\ aligned) =>
    mergeText(sinkCalls) = mergeText(producedCalls(normalizer, OutputLines, 1))

(***************************************************************************)
(* Starting the chat: handleChatAction and ChatSessionInk.  The variable    *)
(* context is the context of the ContextManager the chat works with,        *)
(* cliContext that of the ContextManager of handleChatAction.               *)
(***************************************************************************)
\* the providers handleChatAction accepts
ValidProviders == {"claude", "gemini", "copilot", "deepseek", "cursor"}

\* the order in which findAvailableProvider tries the providers
findOrder == <<"claude", "gemini", "copilot", "cursor">>

\* values of --provider: not given, valid ones, one that is not valid
ProviderOptions == {NoProvider, "claude", "gemini", "bogus"}

\* outcomes of checkAvailability: the providers that are installed
InstalledSets == {{"claude", "gemini"}, {"gemini"}, {"claude"}}

\* userConfig.getDefaultProvider(): no default is configured
getDefaultProvider == NoProvider

\* the store variables that starting the chat leaves alone
startFrame == <<lastSaveTime, pendingSave, timers, autoCompactEnabled, now,
                msgSeq, cmp, ret, calls>>

\* galdr config --provider p: new ContextManager, setCurrentProvider(p)
ConfigProvider(p) ==
  LET l == loadContext(index, files, now)
      ctx == [l.context EXCEPT !.currentProvider = p]
      r == saveSession(l.index, l.files, l.index.currentSession, ctx, now)
  IN  /\ startPc = "shell"
      /\ p \in ValidProviders
      /\ context' = ctx
      /\ index' = r.index
      /\ files' = r.files
      /\ UNCHANGED <<startFrame, startVars>>

\* galdr [--provider p]: handleChatAction up to new ChatSessionInk(), whose
\* constructor makes the ContextManager of the chat
ChatAction(p, avail) ==
  LET l == loadContext(index, files, now)
      chat == loadContext(l.index, l.files, now)
  IN  /\ startPc = "shell"
      /\ cliContext' = l.context
      /\ optionsProvider' = IF p = NoProvider THEN getDefaultProvider ELSE p
      /\ installed' = avail
      /\ context' = chat.context
      /\ index' = chat.index
      /\ files' = chat.files
      /\ startPc' = "validate"
      /\ UNCHANGED <<startFrame, firstProvider>>

\* handleChatAction from the validation of options.provider to
\* context.setCurrentProvider(provider)
Validate ==
  /\ startPc = "validate"
  /\ IF optionsProvider = NoProvider
     THEN /\ startPc' = "start"
          /\ UNCHANGED <<cliContext, context, index, files>>
     ELSE IF optionsProvider \notin ValidProviders
             \/ optionsProvider \notin installed
     THEN /\ startPc' = "exited"
          /\ UNCHANGED <<cliContext, context, index, files>>
     ELSE LET ctx == [cliContext EXCEPT !.currentProvider = optionsProvider]
          IN  /\ cliContext' = ctx
              /\ save(ctx)
              /\ startPc' = "start"
              /\ UNCHANGED context
  /\ UNCHANGED <<startFrame, optionsProvider, installed, firstProvider>>

\* findAvailableProvider from position i of its list
RECURSIVE findAvailableProvider(_, _)
findAvailableProvider(avail, i) ==
  IF i > Len(findOrder) THEN NoProvider
  ELSE IF findOrder[i] \in avail THEN findOrder[i]
  ELSE findAvailableProvider(avail, i + 1)

\* ChatSessionInk.start up to render()
StartChat ==
  /\ startPc = "start"
  /\ IF context.currentProvider \in installed
     THEN /\ startPc' = "chat"
          /\ UNCHANGED <<context, index, files>>
     ELSE LET available == findAvailableProvider(installed, 1)
              ctx == [context EXCEPT !.currentProvider = available]
          IN  IF available = NoProvider
              THEN /\ startPc' = "exited"
                   /\ UNCHANGED <<context, index, files>>
              ELSE /\ startPc' = "chat"
                   /\ context' = ctx
                   /\ save(ctx)
  /\ UNCHANGED <<startFrame, optionsProvider, cliContext, installed,
                 firstProvider>>

\* the first prompt: handleUserInput adds the message and executes with
\* context.getCurrentProvider()
FirstPrompt ==
  /\ startPc = "chat"
  /\ AddMessage("user", NoProvider)
  /\ firstProvider' = context.currentProvider
  /\ startPc' = "prompted"
  /\ UNCHANGED <<optionsProvider, cliContext, installed>>

Starting(A) ==
  A /\ UNCHANGED <<procVars, dsVars, chatVars, splitVars, sessionVars,
                   promptVars, normVars, turnVars, toolVars>>

StartNext ==
  \/ \E p \in ValidProviders : Starting(ConfigProvider(p))
  \/ \E p \in ProviderOptions, avail \in InstalledSets :
       Starting(ChatAction(p, avail))
  \/ Starting(Validate)
  \/ Starting(StartChat)
  \/ Starting(FirstPrompt)

InitShell ==
  /\ \E len \in {0, ShortLen} : InitStore(len)
  /\ InitProc
  /\ InitDs
  /\ InitChat
  /\ InitSplit
  /\ InitSession
  /\ InitPrompt
  /\ InitNorm
  /\ InitStart
  /\ InitTurn
  /\ InitTool

SpecStart == InitShell /\ [][StartNext]_vars

\* C30: when the chat is started with --provider P and P is valid and
\* available, the provider used for the first prompt and recorded as the
\* session's current provider is P, even if the stored provider differed.
C30_ProviderOptionUsed ==
  (startPc = "prompted" /\ optionsProvider \in ValidProviders) =>
    /\ firstProvider = optionsProvider
    /\ context.currentProvider = optionsProvider
    /\ Persisted.currentProvider = optionsProvider

(***************************************************************************)
(* Provider switching at the end of a turn: ProviderManager and the tail of *)
(* executeWithProvider with handleTokenLimitReached.  The text of the turn  *)
(* has been stored while it streamed; what is modelled here is the choice   *)
(* of the next provider.                                                    *)
(***************************************************************************)
\* ProviderManager: the fixed cyclic order
providers == <<"claude", "gemini", "copilot", "cursor">>

SwitchModes == {"manual", "rollover", "round-robin"}

\* outcomes of the availability checks during one turn end
AvailableSets ==
  {{}, {"gemini"}, {"cursor"}, {"claude", "copilot"}, {"copilot", "cursor"},
   {"claude", "gemini", "copilot", "cursor"}}

\* Array.prototype.indexOf, counted from 0, -1 when absent
indexOf(p) ==
  IF \E i \in DOMAIN providers : providers[i] = p
  THEN (CHOOSE i \in DOMAIN providers : providers[i] = p) - 1
  ELSE -1

\* ProviderManager.getNextProvider
getNextProvider(current) ==
  providers[((indexOf(current) + 1) % Len(providers)) + 1]

\* ProviderManager.getNextAvailableProvider, the loop from i; null is "none"
RECURSIVE getNextAvailableFrom(_, _, _)
getNextAvailableFrom(current, avail, i) ==
  IF i >= Len(providers) THEN NoProvider
  ELSE LET nextProvider ==
             providers[((indexOf(current) + i) % Len(providers)) + 1]
       IN  IF nextProvider \in avail THEN nextProvider
           ELSE getNextAvailableFrom(current, avail, i + 1)

getNextAvailableProvider(current, avail) ==
  getNextAvailableFrom(current, avail, 1)

\* the loop of handleTokenLimitReached; "none" when it gives up
RECURSIVE tryProviders(_, _, _, _)
tryProviders(nextProvider, avail, attempts, maxAttempts) ==
  IF attempts >= maxAttempts THEN NoProvider
  ELSE IF nextProvider \in avail THEN nextProvider
  ELSE tryProviders(getNextProvider(nextProvider), avail, attempts + 1,
                    maxAttempts)

\* handleTokenLimitReached that does not look at the mode
handleTokenLimitReachedAnyMode(provider, mode, avail) ==
  LET nextProvider == tryProviders(getNextProvider(provider), avail, 0, 2)
  IN  IF nextProvider # NoProvider
      THEN [to |-> nextProvider, notice |-> "switch-limit"]
      ELSE [to |-> NoProvider, notice |-> "all-unavailable"]

\* handleTokenLimitReached: the provider to switch to and the notification
handleTokenLimitReached(provider, mode, avail) ==
  IF mode = "manual"
  THEN [to |-> NoProvider, notice |-> "limit-manual"]
  ELSE LET nextProvider == tryProviders(getNextProvider(provider), avail, 0, 2)
       IN  IF nextProvider # NoProvider
           THEN [to |-> nextProvider, notice |-> "switch-limit"]
           ELSE [to |-> NoProvider, notice |-> "all-unavailable"]

\* the tail of executeWithProvider: what the result of the turn leads to
afterTurn(provider, mode, success, response, tokenLimitReached, avail) ==
  LET limit == handleTokenLimitReached(provider, mode, avail)
      nextProvider == getNextAvailableProvider(provider, avail)
  IN  IF success /\ response
      THEN IF tokenLimitReached THEN limit
           ELSE IF mode = "round-robin" /\ nextProvider # NoProvider
                   /\ nextProvider # provider
           THEN [to |-> nextProvider, notice |-> "switch-round-robin"]
           ELSE [to |-> NoProvider, notice |-> notice]
      ELSE IF tokenLimitReached THEN limit
      ELSE [to |-> NoProvider, notice |-> "error"]

\* the store variables the end of a turn leaves alone
turnFrame == <<lastSaveTime, pendingSave, timers, autoCompactEnabled, now,
               msgSeq, cmp, ret, calls>>

\* execute() has returned: executeWithProvider from setIsLoading(false) on
TurnEnds(success, response, tokenLimitReached, avail) ==
  LET provider == context.currentProvider
      mode == context.switchMode
      r == afterTurn(provider, mode, success, response, tokenLimitReached,
                     avail)
      ctx == IF r.to = NoProvider THEN context
             ELSE [context EXCEPT !.currentProvider = r.to]
  IN  /\ indexOf(provider) >= 0
      /\ response => success
      /\ turnEnd' = [provider |-> provider, mode |-> mode,
                     success |-> success, response |-> response,
                     tokenLimitReached |-> tokenLimitReached,
                     available |-> avail]
      /\ notice' = r.notice
      /\ context' = ctx
      /\ IF r.to # NoProvider \/ (success /\ response)
         THEN save(ctx)
         ELSE UNCHANGED <<index, files>>
      /\ UNCHANGED turnFrame

\* the /mode command
HandleSwitchMode(mode) ==
  LET ctx == [context EXCEPT !.switchMode = mode]
  IN  /\ context' = ctx
      /\ save(ctx)
      /\ notice' = "mode"
      /\ UNCHANGED <<turnFrame, turnEnd>>

\* the /switch command with a provider that is available
HandleSwitchProvider(provider) ==
  LET ctx == [context EXCEPT !.currentProvider = provider]
  IN  /\ indexOf(provider) >= 0
      /\ context' = ctx
      /\ save(ctx)
      /\ notice' = "switch-manual"
      /\ UNCHANGED <<turnFrame, turnEnd>>

Turns(A) ==
  A /\ UNCHANGED <<procVars, dsVars, chatVars, splitVars, sessionVars,
                   promptVars, normVars, startVars, toolVars>>

TurnNext ==
  \/ \E success \in BOOLEAN, response \in BOOLEAN,
        tokenLimitReached \in BOOLEAN, avail \in AvailableSets :
       Turns(TurnEnds(success, response, tokenLimitReached, avail))
  \/ \E mode \in SwitchModes : Turns(HandleSwitchMode(mode))
  \/ \E provider \in {providers[i] : i \in DOMAIN providers} :
       Turns(HandleSwitchProvider(provider))

InitTurns ==
  /\ InitStore(0)
  /\ InitProc
  /\ InitDs
  /\ InitChat
  /\ InitSplit
  /\ InitSession
  /\ InitPrompt
  /\ InitNorm
  /\ InitStart
  /\ InitTurn
  /\ InitTool

SpecTurn == InitTurns /\ [][TurnNext]_vars

(***************************************************************************)
(* Properties of provider switching                                         *)
(***************************************************************************)
\* the providers other than p that are available
OthersAvailable(p, avail) == avail \ {p}

\* a turn ends in this step
EndsTurn ==
  \E success \in BOOLEAN, response \in BOOLEAN,
     tokenLimitReached \in BOOLEAN, avail \in AvailableSets :
    TurnEnds(success, response, tokenLimitReached, avail)

\* C31: in rollover or round-robin mode, when a turn ends with
\* tokenLimitReached and a provider other than the current one is
\* available, the current provider is switched to an available provider;
\* that all providers are unavailable is reported only when no other
\* provider is available.
C31_LimitSwitchesWhenPossible ==
  [][\A success \in BOOLEAN, response \in BOOLEAN, avail \in AvailableSets :
       (/\ TurnEnds(success, response, TRUE, avail)
        /\ context.switchMode \in {"rollover", "round-robin"}) =>
         /\ OthersAvailable(context.currentProvider, avail) # {} =>
              context'.currentProvider
                \in OthersAvailable(context.currentProvider, avail)
         /\ notice' = "all-unavailable" =>
              OthersAvailable(context.currentProvider, avail) = {}]_vars

\* the step changes the session's current provider
ProviderChanges == context'.currentProvider # context.currentProvider

\* C32: in manual mode a token-limit result never changes the session's
\* current provider, and in no mode does a turn change the current provider
\* unless it ended with a token limit (rollover, round-robin) or ended
\* successfully (round-robin).
C32_TurnChangesProviderOnlyByMode ==
  [][EndsTurn =>
       /\ context.switchMode = "manual" => ~ProviderChanges
       /\ ProviderChanges =>
            \/ /\ turnEnd'.tokenLimitReached
               /\ context.switchMode \in {"rollover", "round-robin"}
            \/ /\ turnEnd'.success
               /\ context.switchMode = "round-robin"]_vars

\* a turn has hit the token limit in manual mode with another provider
\* available, and the provider is the one that ran the turn
C32_Witness ==
  /\ turnEnd.mode = "manual"
  /\ turnEnd.tokenLimitReached
  /\ notice = "limit-manual"
  /\ OthersAvailable(turnEnd.provider, turnEnd.available) # {}
  /\ context.currentProvider = turnEnd.provider
  /\ Persisted.currentProvider = turnEnd.provider

\* the provider d places after p in the cyclic order
Following(p, d) == providers[((indexOf(p) + d) % Len(providers)) + 1]

\* the first available provider after p in the cyclic order, p excluded
FirstFollowing(p, avail) ==
  LET ds == {d \in 1..(Len(providers) - 1) : Following(p, d) \in avail}
  IN  Following(p, CHOOSE d \in ds : \A e \in ds : d <= e)

\* C33: in round-robin mode, after each successful turn the current provider
\* becomes the first available provider that follows the previous one in
\* the fixed cyclic order, and it is never the provider that just answered;
\* getNextAvailableProvider returns null if and only if no provider other
\* than the current one is available.  (A successful turn is one with a
\* response, as in executeWithProvider.)
C33_RoundRobinNext ==
  [][\A tokenLimitReached \in BOOLEAN, avail \in AvailableSets :
       (/\ TurnEnds(TRUE, TRUE, tokenLimitReached, avail)
        /\ context.switchMode = "round-robin") =>
         /\ OthersAvailable(context.currentProvider, avail) # {} =>
              /\ context'.currentProvider =
                   FirstFollowing(context.currentProvider, avail)
              /\ context'.currentProvider # context.currentProvider
         /\ getNextAvailableProvider(context.currentProvider, avail)
              = NoProvider
              <=> OthersAvailable(context.currentProvider, avail) = {}]_vars

(***************************************************************************)
(* Properties of the summarizer                                             *)
(***************************************************************************)
\* p is available and every backend before it in the priority order is not
FirstInPriority(p, avail) ==
  \E j \in DOMAIN priorityOrder :
    /\ priorityOrder[j] = p
    /\ p \in avail
    /\ \A i \in 1..(j - 1) : priorityOrder[i] \notin avail

\* no backend of the priority order is available
NoneAvailable(avail) ==
  \A i \in DOMAIN priorityOrder : priorityOrder[i] \notin avail

\* C34: the summary used by compaction is produced by the first backend, in
\* the fixed priority order, whose availability check succeeds; a backend
\* later in the order is used only if every backend before it is
\* unavailable, and summarization fails with an error when none is
\* available.
C34_FirstAvailableSummarizes ==
  [][\A avail \in AvailSets :
       /\ CompactSucceed(avail) =>
            /\ context'.messages[1].content.kind = "summary"
            /\ FirstInPriority(context'.messages[1].content.by, avail)
       /\ (cmp.pc = "awaiting" /\ NoneAvailable(avail)) =>
            /\ ~ENABLED CompactSucceed(avail)
            /\ \A execution \in {"response", "empty", "failed"} :
                 CompactFail(avail, execution) =>
                   /\ ~ret'.compacted
                   /\ ret'.cause = "no-backend"
                   /\ ret'.error # ""]_vars

\* a compaction was summarized by gemini: claude was not available
C34_Witness ==
  /\ ret.compacted
  /\ cmp.pc = "idle"
  /\ Len(context.messages) >= 1
  /\ context.messages[1].content.kind = "summary"
  /\ context.messages[1].content.by = "gemini"

\* ---------------------------------------------------------------------
\* listSessions

\* a step that is a call of listSessions
Lists ==
  /\ sessionRet'.n # sessionRet.n
  /\ sessionRet'.op = "listSessions"

\* C35: listSessions returns every session of the index exactly once, ordered
\* by lastAccessed from the most recent to the least recent.
C35_ListSessionsSortedByLastAccessed ==
  [][Lists =>
       LET list == sessionRet'.list
       IN  /\ Len(list) = Cardinality(DOMAIN index.sessions)
           /\ \A sessionName \in DOMAIN index.sessions :
                \E i \in DOMAIN list :
                  /\ list[i] = index.sessions[sessionName]
                  /\ \A j \in DOMAIN list :
                       list[j].name = list[i].name => j = i
           /\ \A i, j \in DOMAIN list :
                i < j => list[i].lastAccessed >= list[j].lastAccessed]_vars

\* a listing of sessions that were last accessed at different times
C35_Witness ==
  /\ sessionRet.op = "listSessions"
  /\ Len(sessionRet.list) >= 2
  /\ sessionRet.list[1].lastAccessed > sessionRet.list[2].lastAccessed

\* ---------------------------------------------------------------------
\* addMessage while a compaction awaits its summary

\* ContextManager.addMessage called while compact() awaits the summarizer:
\* the /compact command leaves the input open, so a prompt can be submitted
\* during the await. The history is below the auto-compaction threshold, so
\* addMessage starts no compaction of its own.
AddMessageWhileCompacting(role, provider) ==
  LET m == Message(role, Text(msgSeq), provider)
      ctx == [context EXCEPT !.messages = Append(@, m)]
  IN  /\ cmp.pc = "awaiting"
      /\ ~(autoCompactEnabled /\ Len(ctx.messages) > AUTO_COMPACT_THRESHOLD)
      /\ context' = ctx
      /\ save(ctx)
      /\ msgSeq' = msgSeq + 1
      /\ calls' = calls + 1
      /\ ret' = [NoRet EXCEPT !.op = "addMessage", !.ok = TRUE,
                              !.before = ctx.messages,
                              !.after = ctx.messages]
      /\ UNCHANGED <<cmp, lastSaveTime, pendingSave, timers,
                     autoCompactEnabled, now>>

OverlapNext ==
  \/ Store(Tick)
  \/ \E d \in timers : Store(TimerFire(d))
  \/ /\ calls < MaxCalls
     /\ \E a \in Authors : Store(AddMessage(a[1], a[2]))
  \/ /\ calls < MaxCalls
     /\ Store(UpdateLastAssistantMessage("claude"))
  \/ /\ calls < MaxCalls
     /\ \E keepLast \in KeepCounts : Store(Compact(keepLast))
  \/ /\ calls < MaxCalls
     /\ \E a \in Authors : Store(AddMessageWhileCompacting(a[1], a[2]))
  \/ Store(CompactSucceed({"claude"}))
  \/ Store(CompactFail({}, "failed"))

InitOverlap ==
  /\ \E len \in {0, ShortLen} : InitStore(len)
  /\ InitProc
  /\ InitDs
  /\ InitChat
  /\ InitSplit
  /\ InitSession
  /\ InitPrompt
  /\ InitNorm
  /\ InitStart
  /\ InitTurn
  /\ InitTool

SpecOverlap == InitOverlap /\ [][OverlapNext]_vars

\* the messages appended since the pending compaction started
appendedSince ==
  SubSeq(context.messages, Len(cmp.before) + 1, Len(context.messages))

\* C36: a message appended by addMessage while a compaction is waiting for
\* its summary is in the history, after the summary and the retained suffix,
\* once the compaction has completed; a completing compaction discards no
\* message that was appended after it started.
C36_AppendedDuringCompactionKept ==
  [][CompactSucceed({"claude"}) =>
       /\ Len(context'.messages)
            = 1 + Len(cmp.recentMessages) + Len(appendedSince)
       /\ \A i \in DOMAIN appendedSince :
            context'.messages[1 + Len(cmp.recentMessages) + i]
              = appendedSince[i]
       /\ files'[index.currentSession].context.messages
            = context'.messages]_vars

\* ---------------------------------------------------------------------
\* a switch of session while a compaction awaits its summary

\* creations and switches of session next to appends and compactions; no
\* session is renamed or deleted, so a name stands for one session throughout
SwitchNext ==
  \/ Store(Tick)
  \/ \E d \in timers : Store(TimerFire(d))
  \/ /\ calls < MaxCalls
     /\ \E a \in Authors : Store(AddMessage(a[1], a[2]))
  \/ /\ calls < MaxCalls
     /\ Store(UpdateLastAssistantMessage("claude"))
  \/ /\ calls < MaxCalls
     /\ \E keepLast \in KeepCounts : Store(Compact(keepLast))
  \/ /\ calls < MaxCalls
     /\ \E sessionName \in SessionNames :
          Session(CreateSession(sessionName))
  \/ /\ calls < MaxCalls
     /\ \E sessionName \in SessionNames :
          Session(SwitchSession(sessionName))
  \/ Store(CompactSucceed({"claude"}))
  \/ Store(CompactFail({}, "failed"))

SpecSwitch == InitManager /\ [][SwitchNext]_vars

\* the messages of session B on disk
storedMessages(fs, B) == fs[B].context.messages

\* C37: a compaction started while session A is current never changes the
\* messages, in memory or on disk, of another session B, also when a switch
\* to B succeeds while the summarization call of A is still pending.
C37_CompactionLeavesOtherSessions ==
  [][\A avail \in {{"claude"}, {}} :
       (CompactSucceed(avail) \/ CompactFail(avail, "failed")) =>
         \A B \in DOMAIN files \ {cmp.session} :
           /\ B \in DOMAIN files'
           /\ storedMessages(files', B) = storedMessages(files, B)
           /\ index.currentSession = B =>
                context'.messages = context.messages]_vars

\* ---------------------------------------------------------------------
\* cancellation during the tool-calling loop

\* the step starts the execution of a tool call
StartsTool ==
  \E j \in DOMAIN obs'.log :
    /\ obs'.log[j][1] = "start"
    /\ (j > Len(obs.log) \/ obs.log[j] # obs'.log[j])

\* C38: once the cancellation token has fired during the tool-calling loop,
\* no tool call that had not yet started is executed, and the execution ends
\* with the cancelled result (success false, error "Operation cancelled"),
\* whether the token fired during the network round trip, while the stream
\* was read, or between two tool executions.
C38_NoToolStartsAfterCancel ==
  /\ [][dsAborted => ~StartsTool]_vars
  /\ []((dsAborted /\ dsPc = "done")
          => dsResult = DsFailure(<<"Operation cancelled">>))

\* ---------------------------------------------------------------------
\* the trailing save timer

\* C39: at every moment at most one trailing save timer is pending; a save
\* request that arrives while a timer is pending schedules no second timer,
\* and when the timer fires it writes the in-memory state as of the firing
\* time and leaves no timer pending.
C39_OneTrailingTimer ==
  /\ [](Cardinality(timers) <= 1)
  /\ [][(timers # {} /\ ~(\E d \in timers : TimerFire(d)))
          => timers' \subseteq timers]_vars
  /\ [][\A d \in timers :
          TimerFire(d) => /\ Persisted' = context
                          /\ timers' = {}]_vars

\* number of store calls of a stream of assistant text
MaxSaves == 4

\* a stream of assistant text: updateLastAssistantMessage once per fragment,
\* the clock, and the timer callbacks, which run at or after their due time
TimerNext ==
  \/ Store(Tick)
  \/ \E d \in timers : Store(TimerFire(d))
  \/ /\ calls < MaxSaves
     /\ \E a \in Authors : Store(AddMessage(a[1], a[2]))
  \/ /\ calls < MaxSaves
     /\ Store(UpdateLastAssistantMessage("claude"))

InitTimer ==
  /\ InitStore(ShortLen)
  /\ InitProc
  /\ InitDs
  /\ InitChat
  /\ InitSplit
  /\ InitSession
  /\ InitPrompt
  /\ InitNorm
  /\ InitStart
  /\ InitTurn
  /\ InitTool

SpecTimer == InitTimer /\ [][TimerNext]_vars

\* ---------------------------------------------------------------------
\* tool events of the backend and the displayed tools

\* a tool call of the backend: its name, the position of its stream item
\* (0 when no item was pushed for it) and its result once reported
BackendTool(name, item, toolResult) ==
  [name |-> name, item |-> item, result |-> toolResult]

statusOf(success) == IF success THEN "success" ELSE "failed"

\* the backend reports a tool_use event
ToolUse(toolName) ==
  /\ ToolUseEvent(toolName)
  /\ backendTools' =
       Append(backendTools,
              BackendTool(toolName,
                          IF Len(accumulatedStreamItems')
                               > Len(accumulatedStreamItems)
                          THEN Len(accumulatedStreamItems') ELSE 0,
                          "none"))

\* the backend reports the tool_result event of its k-th tool call
ToolResult(k, success) ==
  /\ k \in DOMAIN backendTools
  /\ backendTools[k].result = "none"
  /\ ToolResultEvent(success)
  /\ backendTools' = [backendTools EXCEPT ![k].result = statusOf(success)]

\* a step of the sink that is a tool event of the backend
Tools(A) == A /\ UNCHANGED <<storeVars, procVars, dsVars, splitVars,
                             sessionVars, promptVars, normVars, startVars,
                             turnVars>>

ToolNext ==
  \/ Chat(WriterActivate)
  \/ Chat(SinkEvent(onTextChunk("t")))
  \/ \E toolName \in ToolNames : Tools(ToolUse(toolName))
  \/ \E k \in DOMAIN backendTools, success \in BOOLEAN :
       Tools(ToolResult(k, success))

SpecTools == InitSink /\ [][ToolNext]_vars

\* C40: a completion event is applied to the displayed tool it belongs to:
\* the tool_result of a tool whose display was suppressed changes the status
\* of no displayed tool, and with several displayed tools each tool gets the
\* success flag of its own result.
C40_CompletionAppliedToOwnTool ==
  [][\A k \in DOMAIN backendTools, success \in BOOLEAN :
       (isActive /\ ToolResult(k, success)) =>
         IF backendTools[k].item = 0
         THEN accumulatedStreamItems' = accumulatedStreamItems
         ELSE accumulatedStreamItems' =
                [accumulatedStreamItems EXCEPT
                   ![backendTools[k].item].status = statusOf(success)]]_vars

====
